---- MODULE Spec2Model ----
(***************************************************************************)
(* Aggregation and scoring pipeline of the traffic-operations dashboard    *)
(* (src/core/app.py, src/core/cycle_length_recommendations.py).            *)
(*                                                                         *)
(* Each component of the pipeline has its own specification over its own   *)
(* variables; the variables of the other components stay at their idle     *)
(* values.  Strings the code parses (cycle labels) are tuples of           *)
(* one-character strings, so that split() and int() are computed.          *)
(***************************************************************************)
EXTENDS Integers, Sequences, FiniteSets, TLC

VARIABLES
    volume,          \* argument of get_hourly_cycle_length (hourly["Volume"])
    current_cycle,   \* the "Select Current Cycle Length" selectbox
    recommended,     \* hourly["CVAG Recommendation"]
    status,          \* hourly["Status"]
    fdf,             \* filter_by_period: the frame passed as df
    period,          \* filter_by_period: the period argument
    filtered,        \* filter_by_period: the frame returned
    bdf,             \* _prep_bucket: the frame passed as df
    granularity,     \* _prep_bucket: the granularity argument
    agg,             \* _prep_bucket: the frame returned
    analysis_df,     \* Tab 1 bottleneck analysis: rows in the analysis window
    bottlenecks,     \* Tab 1 bottleneck table g, one record per group
    bn_status,       \* "none", "table" (shown) or "error" (st.error)
    raw,             \* Tab 2: hourly volume rows in the selected window
    risk_table,      \* Tab 2 risk table g, one record per group
    risk_status,     \* "none" or "table" (shown)
    corridor_df,     \* Tab 1: the loaded corridor frame (base_df)
    selection,       \* Tab 1 widgets: od_mode, origin, destination, hours
    desired_dir,     \* Tab 1: "nb", "sb" or "None"
    route_label,     \* Tab 1: <<origin, destination>> or <<"All Segments">>
    od_hourly,       \* Tab 1: the rows that enter the per-hour O-D series
    od_series,       \* Tab 1: one record per hour, sums of the segment means
    kpi_input,       \* Tab 1: raw_data, the rows handed to the KPI computation,
                     \* and where they come from
    tab1,            \* Tab 1 outcome: "none", "load_error", "no_data",
                     \* "no_window_data" or "kpis"
    section_raw,     \* cycle section: the frame render_cycle_length_section gets
    widgets,         \* cycle section: time_period and current_cycle selectboxes
    filter_cache,    \* st.cache_data store of filter_by_period
    cycle_cache,     \* st.cache_data store of get_hourly_cycle_length
    cache_hits,      \* which of the two stores answered in the last rerun
    section,         \* cycle section outcome: "none", "no_raw", "no_data", "table"
    hourly_table,    \* cycle section: the hourly recommendations table
    chart_df,        \* volume charts: raw_hourly_df
    chart_args,      \* volume charts: granularity, cap_vph, high_vph
    chart_agg,       \* volume charts: agg = _prep_bucket(raw_hourly_df, granularity)
    xs,              \* volume charts: the capacity / threshold overlay rows
    charts,          \* volume charts outcome: "none", "no_figures", "figures"
    dir_series,      \* normalize_dir: the argument s, rows [idx, value]
    dir_result,      \* normalize_dir: the returned series, rows [idx, value]
    volume_df,       \* Tab 2: the loaded volume frame
    vol_selection,   \* Tab 2 widgets: intersection, direction_filter,
                     \* date_range_vol, granularity_vol
    vol_kpis,        \* Tab 2: outcome and demand indicators of the run
    seg_df,          \* _canonical_order_in_data: the argument df, segment names
                     \* as written
    canon_order      \* _canonical_order_in_data: the returned list

cycleVars == <<volume, current_cycle, recommended, status>>
periodVars == <<fdf, period, filtered>>
bucketVars == <<bdf, granularity, agg>>
scoreVars == <<analysis_df, bottlenecks, bn_status>>
riskVars == <<raw, risk_table, risk_status>>
odVars == <<corridor_df, selection, desired_dir, route_label, od_hourly, od_series, kpi_input,
           tab1>>
rerunVars == <<section_raw, widgets, filter_cache, cycle_cache, cache_hits, section, hourly_table>>
chartVars == <<chart_df, chart_args, chart_agg, xs, charts>>
dirVars == <<dir_series, dir_result>>
volVars == <<volume_df, vol_selection, vol_kpis>>
canonVars == <<seg_df, canon_order>>

vars == <<cycleVars, periodVars, bucketVars, scoreVars, riskVars, odVars, rerunVars, chartVars,
          dirVars, volVars, canonVars>>

\* The variables of the components other than the named one.
notCycle == <<periodVars, bucketVars, scoreVars, riskVars, odVars, rerunVars, chartVars, dirVars, volVars, canonVars>>
notPeriod == <<cycleVars, bucketVars, scoreVars, riskVars, odVars, rerunVars, chartVars, dirVars, volVars, canonVars>>
notBucket == <<cycleVars, periodVars, scoreVars, riskVars, odVars, rerunVars, chartVars, dirVars, volVars, canonVars>>
notScore == <<cycleVars, periodVars, bucketVars, riskVars, odVars, rerunVars, chartVars, dirVars, volVars, canonVars>>
notRisk == <<cycleVars, periodVars, bucketVars, scoreVars, odVars, rerunVars, chartVars, dirVars, volVars, canonVars>>
notOD == <<cycleVars, periodVars, bucketVars, scoreVars, riskVars, rerunVars, chartVars, dirVars, volVars, canonVars>>
notVol == <<cycleVars, periodVars, bucketVars, scoreVars, riskVars, odVars, rerunVars, chartVars,
           dirVars, canonVars>>
notCanon == <<cycleVars, periodVars, bucketVars, scoreVars, riskVars, odVars, rerunVars, chartVars,
             dirVars, volVars>>
notDir == <<cycleVars, periodVars, bucketVars, scoreVars, riskVars, odVars, rerunVars, chartVars, volVars, canonVars>>
notChart == <<cycleVars, periodVars, bucketVars, scoreVars, riskVars, odVars, rerunVars, dirVars, volVars, canonVars>>
notRerun == <<cycleVars, periodVars, bucketVars, scoreVars, riskVars, odVars, chartVars, dirVars, volVars, canonVars>>

\* A result that has not been computed yet (a tuple, or a string).
None == <<"None">>
NoStatus == "none"
\* A frame that has not been computed yet (no real frame has this column).
NoFrame == [columns |-> {"<none>"}, rows |-> <<>>]

\* pandas' missing number (NaN), outside every domain of numbers used here.
NaN == -1000000
\* pandas' missing timestamp (NaT).
NaT == -1
\* A cell that pd.to_datetime(errors="coerce") cannot parse.
BadTime == -2

(***************************************************************************)
(* Idle values: a component that a specification does not run.             *)
(***************************************************************************)
CycleIdle ==
    /\ volume = NaN
    /\ current_cycle = None
    /\ recommended = None
    /\ status = NoStatus

PeriodIdle ==
    /\ fdf = NoFrame
    /\ period = "none"
    /\ filtered = NoFrame

BucketIdle ==
    /\ bdf = NoFrame
    /\ granularity = "none"
    /\ agg = NoFrame

ScoreIdle ==
    /\ analysis_df = <<>>
    /\ bottlenecks = {}
    /\ bn_status = "none"

RiskIdle ==
    /\ raw = <<>>
    /\ risk_table = {}
    /\ risk_status = "none"

\* No node selected (Python None).
NoNode == "None"
NoSelection ==
    [od_mode |-> FALSE, origin |-> NoNode, destination |-> NoNode, hours |-> {},
     granularity |-> "none"]
\* No rows were handed to the KPI computation.
NoKpiInput == [source |-> "none", rows |-> {}]

ODIdle ==
    /\ corridor_df = NoFrame
    /\ selection = NoSelection
    /\ desired_dir = "None"
    /\ route_label = <<>>
    /\ od_hourly = <<>>
    /\ od_series = {}
    /\ kpi_input = NoKpiInput
    /\ tab1 = "none"

\* No store has answered.
NoHits == [filter |-> FALSE, cycle |-> FALSE]
NoWidgets == [time_period |-> "none", current_cycle |-> None]

RerunIdle ==
    /\ section_raw = NoFrame
    /\ widgets = NoWidgets
    /\ filter_cache = <<>>
    /\ cycle_cache = <<>>
    /\ cache_hits = NoHits
    /\ section = "none"
    /\ hourly_table = {}

NoChartArgs == [granularity |-> "none", cap_vph |-> 0, high_vph |-> 0]

ChartIdle ==
    /\ chart_df = NoFrame
    /\ chart_args = NoChartArgs
    /\ chart_agg = NoFrame
    /\ xs = <<>>
    /\ charts = "none"

\* normalize_dir has not returned.
NotReturned == <<[idx |-> -1, value |-> "none"]>>

DirIdle ==
    /\ dir_series = <<>>
    /\ dir_result = NotReturned

NoVolSelection ==
    [intersection |-> "none", direction_filter |-> "none", date_range_vol |-> <<0, 0>>,
     granularity_vol |-> "none"]
\* Outcome st of a Tab 2 run that shows no indicators.
NoKpis(st) ==
    [status |-> st, peak_val |-> 0, buckets |-> 0, high_hours |-> 0, total_hours |-> 0,
     risk_pct |-> 0, total_vehicles |-> 0]

VolIdle ==
    /\ volume_df = NoFrame
    /\ vol_selection = NoVolSelection
    /\ vol_kpis = NoKpis("none")

\* _canonical_order_in_data has not returned.
NoOrder == <<"<none>">>

CanonIdle ==
    /\ seg_df = NoFrame
    /\ canon_order = NoOrder

\* Every component but the named one is idle.
OthersIdle(c) ==
    /\ c = "cycle" \/ CycleIdle
    /\ c = "period" \/ PeriodIdle
    /\ c = "bucket" \/ BucketIdle
    /\ c = "score" \/ ScoreIdle
    /\ c = "risk" \/ RiskIdle
    /\ c = "od" \/ ODIdle
    /\ c = "rerun" \/ RerunIdle
    /\ c = "chart" \/ ChartIdle
    /\ c = "dir" \/ DirIdle
    /\ c = "vol" \/ VolIdle
    /\ c = "canon" \/ CanonIdle

(***************************************************************************)
(* Generic helpers                                                         *)
(***************************************************************************)
RECURSIVE SeqsUpTo(_, _)
\* All sequences over S of length 0..n.
SeqsUpTo(S, n) ==
    IF n = 0 THEN {<<>>}
    ELSE LET shorter == SeqsUpTo(S, n - 1)
         IN  shorter \cup {Append(s, x) : s \in {t \in shorter : Len(t) = n - 1}, x \in S}

Range(s) == {s[i] : i \in DOMAIN s}

RECURSIVE Gcd(_, _)
Gcd(a, b) == IF b = 0 THEN a ELSE Gcd(b, a % b)

RECURSIVE LcmUpTo(_)
\* The least common multiple of 1..n.
LcmUpTo(n) == IF n <= 1 THEN 1 ELSE LET l == LcmUpTo(n - 1) IN (l * n) \div Gcd(l, n)

\* The integer nearest to num / den (den > 0), ties to the even one: the
\* rounding of Series.round on exact values.
RoundHalfEven(num, den) ==
    LET q == num \div den
        r == num % den
    IN  IF 2 * r < den THEN q
        ELSE IF 2 * r > den THEN q + 1
        ELSE IF q % 2 = 0 THEN q ELSE q + 1

SetMax(S) == CHOOSE x \in S : \A y \in S : y <= x
SetMin(S) == CHOOSE x \in S : \A y \in S : x <= y

RECURSIVE SeqSum(_)
SeqSum(q) == IF q = <<>> THEN 0 ELSE Head(q) + SeqSum(Tail(q))

(***************************************************************************)
(* cycle_length_recommendations.py: labels, thresholds, status             *)
(***************************************************************************)
FreeMode == <<"F", "r", "e", "e", " ", "m", "o", "d", "e">>
Sec110 == <<"1", "1", "0", " ", "s", "e", "c">>
Sec120 == <<"1", "2", "0", " ", "s", "e", "c">>
Sec130 == <<"1", "3", "0", " ", "s", "e", "c">>
Sec140 == <<"1", "4", "0", " ", "s", "e", "c">>

CYCLE_ORDER == <<FreeMode, Sec110, Sec120, Sec130, Sec140>>

\* The thresholds of get_hourly_cycle_length, in vehicles per hour.
Thr140 == 2400
Thr130 == 1500
Thr120 == 600
Thr110 == 300

get_hourly_cycle_length_swapped(v) ==
    IF v = NaN \/ v <= 0 THEN FreeMode
    ELSE IF v > Thr140 THEN Sec140
    ELSE IF v >= Thr130 THEN Sec130
    ELSE IF v >= Thr120 THEN Sec120
    ELSE IF v >= Thr110 THEN Sec110
    ELSE FreeMode

get_hourly_cycle_length(v) ==
    IF v = NaN \/ v <= 0 THEN FreeMode
    ELSE IF v >= Thr140 THEN Sec140
    ELSE IF v >= Thr130 THEN Sec130
    ELSE IF v >= Thr120 THEN Sec120
    ELSE IF v >= Thr110 THEN Sec110
    ELSE FreeMode

\* str.split()[0]: the first maximal run of non-blank characters.
RECURSIVE SkipBlanks(_)
SkipBlanks(s) ==
    IF s = <<>> THEN <<>>
    ELSE IF Head(s) = " " THEN SkipBlanks(Tail(s)) ELSE s

RECURSIVE TakeWord(_)
TakeWord(s) ==
    IF s = <<>> \/ Head(s) = " " THEN <<>>
    ELSE <<Head(s)>> \o TakeWord(Tail(s))

FirstToken(s) == TakeWord(SkipBlanks(s))

DigitValue(c) ==
    CASE c = "0" -> 0 [] c = "1" -> 1 [] c = "2" -> 2 [] c = "3" -> 3
      [] c = "4" -> 4 [] c = "5" -> 5 [] c = "6" -> 6 [] c = "7" -> 7
      [] c = "8" -> 8 [] c = "9" -> 9

RECURSIVE ParseInt(_, _)
\* int() of a string of decimal digits, most significant first.
ParseInt(s, acc) ==
    IF s = <<>> THEN acc
    ELSE ParseInt(Tail(s), 10 * acc + DigitValue(Head(s)))

\* int(label.split()[0]) if label != "Free mode" else 0
_sec_value(label) ==
    IF label # FreeMode THEN ParseInt(FirstToken(label), 0) ELSE 0

_get_status_free_up(rec, cur) ==
    IF rec = cur THEN "OPTIMAL"
    ELSE IF rec = FreeMode /\ cur # FreeMode THEN "INCREASE"
    ELSE IF rec # FreeMode /\ cur = FreeMode THEN "REDUCE"
    ELSE IF _sec_value(rec) > _sec_value(cur) THEN "INCREASE"
    ELSE IF _sec_value(rec) < _sec_value(cur) THEN "REDUCE"
    ELSE "OPTIMAL"

_get_status(rec, cur) ==
    IF rec = cur THEN "OPTIMAL"
    ELSE IF rec = FreeMode /\ cur # FreeMode THEN "REDUCE"
    ELSE IF rec # FreeMode /\ cur = FreeMode THEN "INCREASE"
    ELSE IF _sec_value(rec) > _sec_value(cur) THEN "INCREASE"
    ELSE IF _sec_value(rec) < _sec_value(cur) THEN "REDUCE"
    ELSE "OPTIMAL"

\* Volumes handed to get_hourly_cycle_length: NegVolumes negative ones,
\* zero, and every volume up to MaxVolume, which lies above the top threshold.
NegVolumes == 2
MaxVolume == 2402
Volumes == ((0 - NegVolumes) .. MaxVolume) \cup {NaN}

CycleInit ==
    /\ volume \in Volumes
    /\ current_cycle \in Range(CYCLE_ORDER)
    /\ recommended = None
    /\ status = NoStatus
    /\ OthersIdle("cycle")

\* hourly["CVAG Recommendation"] = hourly["Volume"].apply(get_hourly_cycle_length)
Recommend ==
    /\ recommended = None
    /\ recommended' = get_hourly_cycle_length(volume)
    /\ UNCHANGED <<volume, current_cycle, status, notCycle>>

\* hourly["Status"] = ....apply(lambda rec: _get_status(rec, current_cycle))
Status ==
    /\ recommended # None
    /\ status = NoStatus
    /\ status' = _get_status(recommended, current_cycle)
    /\ UNCHANGED <<volume, current_cycle, recommended, notCycle>>

CycleNext == Recommend \/ Status

SpecCycle == CycleInit /\ [][CycleNext]_vars

(***************************************************************************)
(* Data frames and timestamps                                              *)
(*                                                                         *)
(* A frame is [columns |-> set of column names, rows |-> sequence of       *)
(* rows]; a row is a record with the field idx (its index label) and one   *)
(* field per column.  A timestamp is a number of minutes since             *)
(* 2024-01-01 00:00, a Monday.                                             *)
(***************************************************************************)
Frame(cols, rws) == [columns |-> cols, rows |-> rws]

\* The empty frame check, df.empty.
IsEmpty(df) == Len(df.rows) = 0

\* pd.to_datetime(cell, errors="coerce")
ToDatetimeCoerce(cell) == IF cell = BadTime THEN NaT ELSE cell

\* Series.dt.hour of a timestamp that is not NaT.
HourOf(ts) == (ts \div 60) % 24

(***************************************************************************)
(* cycle_length_recommendations.py: filter_by_period                       *)
(***************************************************************************)
InPeriod_open_end(ts, p) ==
    IF ts = NaT THEN FALSE
    ELSE CASE p = "AM" -> HourOf(ts) >= 5 /\ HourOf(ts) < 10
           [] p = "MD" -> HourOf(ts) >= 11 /\ HourOf(ts) < 15
           [] p = "PM" -> HourOf(ts) >= 16 /\ HourOf(ts) < 20
           [] OTHER -> TRUE

\* The boolean mask of each branch; a NaT row compares False in all three.
InPeriod(ts, p) ==
    IF ts = NaT THEN FALSE
    ELSE CASE p = "AM" -> HourOf(ts) >= 5 /\ HourOf(ts) <= 10
           [] p = "MD" -> HourOf(ts) >= 11 /\ HourOf(ts) <= 15
           [] p = "PM" -> HourOf(ts) >= 16 /\ HourOf(ts) <= 20
           [] OTHER -> TRUE

filter_by_period(df, time_col, p) ==
    IF time_col \notin df.columns THEN df
    ELSE LET df_copy == Frame(df.columns,
                 [i \in DOMAIN df.rows |->
                     [df.rows[i] EXCEPT ![time_col] = ToDatetimeCoerce(@)]])
         IN  IF p \in {"AM", "MD", "PM"}
             THEN Frame(df_copy.columns,
                        SelectSeq(df_copy.rows, LAMBDA r : InPeriod(r[time_col], p)))
             ELSE df_copy

\* Inputs of filter_by_period: every hour of the day, a missing and an
\* unparseable timestamp; frames of up to MaxFilterRows rows, with or without
\* the time column.
MaxFilterRows == 2
FilterTimes == {h * 60 : h \in 0 .. 23} \cup {NaT, BadTime}
FilterVolumes == {700}
Periods == {"AM", "MD", "PM", "ALL", "Night"}

\* Rows numbered 0..n-1 (a RangeIndex) from a sequence of cell records.
WithIndex(cells) == [i \in DOMAIN cells |-> [cells[i] EXCEPT !.idx = i - 1]]

FilterFrames ==
    {Frame({"local_datetime", "total_volume"}, WithIndex(c)) :
        c \in SeqsUpTo([idx : {0}, local_datetime : FilterTimes,
                        total_volume : FilterVolumes], MaxFilterRows)}
    \cup
    {Frame({"total_volume"}, WithIndex(c)) :
        c \in SeqsUpTo([idx : {0}, total_volume : FilterVolumes], MaxFilterRows)}

PeriodInit ==
    /\ fdf \in FilterFrames
    /\ period = "none"
    /\ filtered = NoFrame
    /\ OthersIdle("period")

\* One call filter_by_period(df, "local_datetime", p).
Filter(p) ==
    /\ filtered = NoFrame
    /\ period' = p
    /\ filtered' = filter_by_period(fdf, "local_datetime", p)
    /\ UNCHANGED <<fdf, notPeriod>>

PeriodNext == \E p \in Periods : Filter(p)

SpecPeriod == PeriodInit /\ [][PeriodNext]_vars

(***************************************************************************)
(* app.py: AGG_META, _prep_bucket                                          *)
(***************************************************************************)
MinutesPerHour == 60
MinutesPerDay == 1440
MinutesPerWeek == 10080

\* Days of the months of 2024, the year the timestamps lie in.
MonthDays == <<31, 29, 31, 30, 31, 30, 31, 31, 30, 31, 30, 31>>

RECURSIVE MonthStartDay(_)
\* Day number (0 = January 1) of the first day of month m.
MonthStartDay(m) == IF m = 1 THEN 0 ELSE MonthStartDay(m - 1) + MonthDays[m - 1]

\* The month (1..12) a day number lies in.
MonthOfDay(day) ==
    CHOOSE m \in 1 .. 12 :
        MonthStartDay(m) <= day /\ day < MonthStartDay(m) + MonthDays[m]

\* Series.dt.days_in_month
days_in_month(ts) == MonthDays[MonthOfDay(ts \div MinutesPerDay)]

\* meta["fixed_hours"] of Monthly: None.
FixedHoursNone == 0

AGG_META ==
    [g \in {"Hourly", "Daily", "Weekly", "Monthly"} |->
        CASE g = "Hourly" -> [unit |-> "vph", bucket |-> "H", label |-> "hour",
                              fixed_hours |-> 1]
          [] g = "Daily" -> [unit |-> "vpd", bucket |-> "D", label |-> "day",
                             fixed_hours |-> 24]
          [] g = "Weekly" -> [unit |-> "vpw", bucket |-> "W", label |-> "week",
                              fixed_hours |-> 24 * 7]
          [] g = "Monthly" -> [unit |-> "vpm", bucket |-> "M", label |-> "month",
                               fixed_hours |-> FixedHoursNone]]

\* A plausible slip: dt.floor("7D") counts weeks from 1970-01-01, a Thursday,
\* which is 3 days after a Monday.
BucketOf_floor7D(ts, g) ==
    IF ts = NaT THEN NaT
    ELSE CASE g = "Hourly" -> ts - (ts % MinutesPerHour)
           [] g = "Daily" -> ts - (ts % MinutesPerDay)
           [] g = "Weekly" -> ts - ((ts + 4 * MinutesPerDay) % MinutesPerWeek)
           [] OTHER -> MonthStartDay(MonthOfDay(ts \div MinutesPerDay)) * MinutesPerDay

\* d["bucket"]: dt.floor("H"), dt.floor("D"), dt.to_period("W").dt.start_time
\* (weeks run Monday to Sunday), dt.to_period("M").dt.start_time.
BucketOf(ts, g) ==
    IF ts = NaT THEN NaT
    ELSE CASE g = "Hourly" -> ts - (ts % MinutesPerHour)
           [] g = "Daily" -> ts - (ts % MinutesPerDay)
           [] g = "Weekly" -> ts - (ts % MinutesPerWeek)
           [] OTHER -> MonthStartDay(MonthOfDay(ts \div MinutesPerDay)) * MinutesPerDay

\* A missing intersection_name.
NoName == "NaN"

\* Alphabetical rank of the intersection names of the model.
NameRank(n) == CASE n = "Ave 48" -> 1 [] n = "Ave 50" -> 2 [] OTHER -> 3

RECURSIVE SumVolumes(_)
\* Series.sum(): missing values are skipped, the empty sum is 0.
SumVolumes(rws) ==
    IF rws = <<>> THEN 0
    ELSE (IF Head(rws).total_volume = NaN THEN 0 ELSE Head(rws).total_volume)
         + SumVolumes(Tail(rws))

KeyBefore(k1, k2) ==
    \/ k1[1] < k2[1]
    \/ k1[1] = k2[1] /\ NameRank(k1[2]) < NameRank(k2[2])

RECURSIVE SortKeys(_)
\* groupby sorts the group keys.
SortKeys(keys) ==
    IF keys = {} THEN <<>>
    ELSE LET first == CHOOSE k \in keys : \A o \in keys \ {k} : KeyBefore(k, o)
         IN  <<first>> \o SortKeys(keys \ {first})

\* groupby(["bucket", "intersection_name"], as_index=False)
\*   .agg(total_volume=("total_volume", "sum")): groups with a missing key are
\* dropped.
GroupSum(rws, g) ==
    LET keys == {<<BucketOf(rws[i].local_datetime, g), rws[i].intersection_name>> :
                    i \in {j \in DOMAIN rws :
                              /\ rws[j].local_datetime # NaT
                              /\ rws[j].intersection_name # NoName}}
        order == SortKeys(keys)
    IN  [i \in DOMAIN order |->
            [idx |-> i - 1,
             local_datetime |-> order[i][1],
             intersection_name |-> order[i][2],
             total_volume |->
                 SumVolumes(SelectSeq(rws, LAMBDA r :
                     /\ r.local_datetime # NaT
                     /\ BucketOf(r.local_datetime, g) = order[i][1]
                     /\ r.intersection_name = order[i][2]))]]

\* A month taken as 30 days.
BucketHours_30_days(ts, g) ==
    IF g = "Monthly" THEN 30 * 24 ELSE AGG_META[g].fixed_hours

BucketHours(ts, g) ==
    IF g = "Monthly" THEN days_in_month(ts) * 24 ELSE AGG_META[g].fixed_hours

_prep_bucket(df, g) ==
    IF IsEmpty(df) THEN df
    ELSE LET sums == GroupSum(df.rows, g)
         IN  Frame({"local_datetime", "intersection_name", "total_volume", "bucket_hours"},
                   [i \in DOMAIN sums |->
                       [idx |-> sums[i].idx,
                        local_datetime |-> sums[i].local_datetime,
                        intersection_name |-> sums[i].intersection_name,
                        total_volume |-> sums[i].total_volume,
                        bucket_hours |-> BucketHours(sums[i].local_datetime, g)]])

\* Inputs of _prep_bucket.  The timestamps are Tue Jan 30 00:00, 00:30 and
\* 23:00, Wed Jan 31, Thu Feb 1 (same week, next month) and Mon Feb 5 (next
\* week), and a missing one.
At(day, hour, minute) == day * MinutesPerDay + hour * MinutesPerHour + minute
SampleTimes ==
    {At(29, 0, 0), At(29, 0, 30), At(29, 23, 0), At(30, 0, 0), At(31, 0, 0),
     At(35, 0, 0), NaT}
SampleNames == {"Ave 48", "Ave 50", NoName}
SampleVolumes == {NaN, 1, 2}
MaxBucketRows == 2
Granularities == DOMAIN AGG_META

BucketFrames ==
    {Frame({"local_datetime", "intersection_name", "total_volume"}, WithIndex(c)) :
        c \in SeqsUpTo([idx : {0}, local_datetime : SampleTimes,
                        intersection_name : SampleNames,
                        total_volume : SampleVolumes], MaxBucketRows)}

BucketInit ==
    /\ bdf \in BucketFrames
    /\ granularity = "none"
    /\ agg = NoFrame
    /\ OthersIdle("bucket")

\* One call _prep_bucket(df, g).
PrepBucket(g) ==
    /\ agg = NoFrame
    /\ granularity = "none"
    /\ granularity' = g
    /\ agg' = _prep_bucket(bdf, g)
    /\ UNCHANGED <<bdf, notBucket>>

BucketNext == \E g \in Granularities : PrepBucket(g)

SpecBucket == BucketInit /\ [][BucketNext]_vars

(***************************************************************************)
(* app.py, Tab 1: Comprehensive Bottleneck Analysis                        *)
(*                                                                         *)
(* analysis_df is the frame after the window filter, the direction         *)
(* normalisation and the O-D direction filter: a sequence of rows          *)
(* [segment_name, dir_norm, average_delay, average_traveltime].  A mean    *)
(* is kept as the integer mean * MeanScale; min-max normalisation does not *)
(* depend on the scale.  A normalised value is a fraction <<num, den>>,    *)
(* and a score is a number of tenths.                                      *)
(***************************************************************************)
MaxScoreRows == 3
MeanScale == LcmUpTo(MaxScoreRows)

\* The values of a column that are not missing, as a sequence.
Present(rws, col) ==
    LET cells == [i \in DOMAIN rws |-> rws[i][col]]
    IN  SelectSeq(cells, LAMBDA v : v # NaN)

\* agg "max": the largest value that is not missing, NaN when all are.
AggMax(rws, col) ==
    LET vals == Present(rws, col)
    IN  IF vals = <<>> THEN NaN ELSE SetMax(Range(vals))

\* agg "mean" times MeanScale, NaN when all values are missing.
AggMeanScaled(rws, col) ==
    LET vals == Present(rws, col)
    IN  IF vals = <<>> THEN NaN ELSE (SeqSum(vals) * MeanScale) \div Len(vals)

\* analysis_df.groupby(["segment_name", "dir_norm"]).agg(...).reset_index()
GroupTable(rws) ==
    LET keys == {<<rws[i].segment_name, rws[i].dir_norm>> : i \in DOMAIN rws}
    IN  {LET grp == SelectSeq(rws, LAMBDA r :
                        r.segment_name = k[1] /\ r.dir_norm = k[2])
         IN  [segment_name |-> k[1],
              dir_norm |-> k[2],
              average_delay_mean |-> AggMeanScaled(grp, "average_delay"),
              average_delay_max |-> AggMax(grp, "average_delay"),
              average_traveltime_max |-> AggMax(grp, "average_traveltime"),
              n |-> Len(Present(grp, "average_delay"))]
         : k \in keys}

\* Min-max normalisation without the guard on the range: 0 / 0 is missing.
_norm_unguarded(g, col, v) ==
    LET finite == {r[col] : r \in g} \ {NaN}
    IN  IF finite # {} /\ SetMax(finite) > SetMin(finite) /\ v # NaN
        THEN <<v - SetMin(finite), SetMax(finite) - SetMin(finite)>>
        ELSE <<NaN, 1>>

\* _norm(s) at the value v of column col of g: (v - mn) / (mx - mn) when
\* nanmin and nanmax are finite and differ (a missing v stays missing), else
\* 0 for every row.
_norm(g, col, v) ==
    LET finite == {r[col] : r \in g} \ {NaN}
    IN  IF finite # {} /\ SetMax(finite) > SetMin(finite)
        THEN IF v = NaN THEN <<NaN, 1>>
             ELSE <<v - SetMin(finite), SetMax(finite) - SetMin(finite)>>
        ELSE <<0, 1>>

\* Weights of the composite, in percent.
WeightPeakDelay == 45
WeightMeanDelay == 35
WeightPeakTime == 20

\* ((0.45 * a + 0.35 * b + 0.20 * c) * 100).round(1), in tenths.
BottleneckScore(a, b, c) ==
    IF a[1] = NaN \/ b[1] = NaN \/ c[1] = NaN THEN NaN
    ELSE RoundHalfEven(
             10 * (WeightPeakDelay * a[1] * b[2] * c[2]
                   + WeightMeanDelay * b[1] * a[2] * c[2]
                   + WeightPeakTime * c[1] * a[2] * b[2]),
             a[2] * b[2] * c[2])

\* pd.cut(score, bins=[-0.1, 20, 40, 60, 80, 200], labels=...), score in tenths.
PerformanceRating(score) ==
    IF score = NaN THEN "NaN"
    ELSE IF -1 < score /\ score <= 200 THEN "Excellent"
    ELSE IF 200 < score /\ score <= 400 THEN "Good"
    ELSE IF 400 < score /\ score <= 600 THEN "Fair"
    ELSE IF 600 < score /\ score <= 800 THEN "Poor"
    ELSE IF 800 < score /\ score <= 2000 THEN "Critical"
    ELSE "NaN"

\* g with the columns Bottleneck_Score and Performance Rating.
ScoredTable(rws) ==
    LET g == GroupTable(rws)
    IN  {LET sc == BottleneckScore(
                       _norm(g, "average_delay_max", r.average_delay_max),
                       _norm(g, "average_delay_mean", r.average_delay_mean),
                       _norm(g, "average_traveltime_max", r.average_traveltime_max))
         IN  [segment_name |-> r.segment_name,
              dir_norm |-> r.dir_norm,
              average_delay_mean |-> r.average_delay_mean,
              average_delay_max |-> r.average_delay_max,
              average_traveltime_max |-> r.average_traveltime_max,
              n |-> r.n,
              Bottleneck_Score |-> sc,
              Rating |-> PerformanceRating(sc)]
         : r \in g}

\* Rows of the analysis: three segment-direction groups, delays and travel
\* times (minutes) that may be missing.
SampleGroups == {<<"S1", "nb">>, <<"S1", "sb">>, <<"S2", "nb">>}
SampleDelays == {NaN, 0, 1}
SampleTimesMin == {NaN, 1, 2}
AnalysisRows ==
    {[segment_name |-> k[1], dir_norm |-> k[2], average_delay |-> dl,
      average_traveltime |-> tt] :
        k \in SampleGroups, dl \in SampleDelays, tt \in SampleTimesMin}

ScoreInit ==
    /\ analysis_df \in SeqsUpTo(AnalysisRows, MaxScoreRows)
    /\ bottlenecks = {}
    /\ bn_status = "none"
    /\ OthersIdle("score")

\* The table is built and shown.
ShowBottlenecks ==
    /\ bn_status = "none"
    /\ analysis_df # <<>>
    /\ bottlenecks' = ScoredTable(analysis_df)
    /\ bn_status' = "table"
    /\ UNCHANGED <<analysis_df, notScore>>

\* With no group, np.nanmin of an empty column raises and st.error is shown.
BottleneckError ==
    /\ bn_status = "none"
    /\ analysis_df = <<>>
    /\ bn_status' = "error"
    /\ UNCHANGED <<analysis_df, bottlenecks, notScore>>

ScoreNext == ShowBottlenecks \/ BottleneckError

SpecScore == ScoreInit /\ [][ScoreNext]_vars

(***************************************************************************)
(* app.py, Tab 2: Intersection Volume & Capacity Risk Analysis             *)
(*                                                                         *)
(* raw is a sequence of rows [intersection_name, direction, total_volume]. *)
(* Percentages, the ratio and the score are numbers of tenths, as          *)
(* round(1) leaves them.  The standard deviation column does not enter the *)
(* score and is left out.                                                  *)
(***************************************************************************)
THEORETICAL_LINK_CAPACITY_VPH == 1800
HIGH_VOLUME_THRESHOLD_VPH == 1200

\* (x / THEORETICAL_LINK_CAPACITY_VPH * 100).round(1) of x = num / den.
CapacityUtil(num, den) ==
    RoundHalfEven(num * 1000, den * THEORETICAL_LINK_CAPACITY_VPH)

\* (max / mean).replace([inf, -inf], 0).fillna(0).round(1), mean = sum / n.
PeakAvgRatio(mx, sum, n) ==
    IF sum = 0 THEN 0 ELSE RoundHalfEven(10 * mx * n, sum)

RiskScore_heavy_peak(p, a, r) ==
    IF p = NaN \/ a = NaN THEN NaN
    ELSE RoundHalfEven(50 * p + 3 * a + 2 * (r * 10), 10)

\* (0.5 * Peak_Capacity_Util + 0.3 * Avg_Capacity_Util
\*  + 0.2 * (Peak_Avg_Ratio * 10)).round(1)
RiskScore(p, a, r) ==
    IF p = NaN \/ a = NaN THEN NaN
    ELSE RoundHalfEven(5 * p + 3 * a + 2 * (r * 10), 10)

\* raw.groupby(["intersection_name", "direction"]).agg(...) with the derived
\* columns.
RiskTable(rws) ==
    LET keys == {<<rws[i].intersection_name, rws[i].direction>> : i \in DOMAIN rws}
    IN  {LET grp == SelectSeq(rws, LAMBDA r :
                        r.intersection_name = k[1] /\ r.direction = k[2])
             vals == Present(grp, "total_volume")
             cnt == Len(vals)
             mx == AggMax(grp, "total_volume")
             peak == IF cnt = 0 THEN NaN ELSE CapacityUtil(mx, 1)
             avg == IF cnt = 0 THEN NaN ELSE CapacityUtil(SeqSum(vals), cnt)
             ratio == IF cnt = 0 THEN 0 ELSE PeakAvgRatio(mx, SeqSum(vals), cnt)
         IN  [intersection_name |-> k[1],
              direction |-> k[2],
              total_volume_max |-> mx,
              total_volume_count |-> cnt,
              Peak_Capacity_Util |-> peak,
              Avg_Capacity_Util |-> avg,
              Peak_Avg_Ratio |-> ratio,
              Risk_Score |-> RiskScore(peak, avg, ratio)]
         : k \in keys}

\* Hourly volume rows: two intersections, two directions, volumes from none
\* to above the theoretical capacity, or missing.
MaxRiskRows == 3
RiskDirections == {"NB", "SB"}
RiskVolumes == {NaN, 0, 600, 1800, 2400}
RiskRows ==
    {[intersection_name |-> n, direction |-> dr, total_volume |-> v] :
        n \in SampleNames \ {NoName}, dr \in RiskDirections, v \in RiskVolumes}

RiskInit ==
    /\ raw \in SeqsUpTo(RiskRows, MaxRiskRows)
    /\ risk_table = {}
    /\ risk_status = "none"
    /\ OthersIdle("risk")

\* The risk table is built and shown.
ShowRisk ==
    /\ risk_status = "none"
    /\ risk_table' = RiskTable(raw)
    /\ risk_status' = "table"
    /\ UNCHANGED <<raw, notRisk>>

RiskNext == ShowRisk

SpecRisk == RiskInit /\ [][RiskNext]_vars

(***************************************************************************)
(* app.py: node order and direction normalisation                          *)
(*                                                                         *)
(* A segment_name "A -> B" is the tuple of its parts <<"A", "B">>, as      *)
(* split on the arrow and stripped; a direction cell is                    *)
(* <<type, text>>, text being the characters of str(cell).                 *)
(***************************************************************************)
DESIRED_NODE_ORDER_BOTTOM_UP ==
    <<"Avenue 52", "Calle Tampico", "Village Shopping Ctr", "Avenue 50",
      "Sagebrush Ave", "Eisenhower Dr", "Avenue 48", "Avenue 47",
      "Point Happy Simon", "Hwy 111">>

\* Position of x in the sequence q that holds it.
IndexOf(q, x) == CHOOSE i \in DOMAIN q : q[i] = x /\ \A j \in 1 .. (i - 1) : q[j] # x

\* _nodes_present_in_data: the endpoints of the names with exactly two parts.
_nodes_present_in_data(df) ==
    IF "segment_name" \notin df.columns \/ IsEmpty(df) THEN {}
    ELSE UNION {{df.rows[i].segment_name[1], df.rows[i].segment_name[2]} :
                   i \in {j \in DOMAIN df.rows : Len(df.rows[j].segment_name) = 2}}

\* The present canonical nodes listed top-down.
_canonical_order_top_down(df) ==
    LET present == _nodes_present_in_data(df)
        n == Len(DESIRED_NODE_ORDER_BOTTOM_UP)
    IN  SelectSeq([i \in 1 .. n |-> DESIRED_NODE_ORDER_BOTTOM_UP[n + 1 - i]],
                  LAMBDA x : x \in present)

_canonical_order_in_data(df) ==
    LET present == _nodes_present_in_data(df)
    IN  SelectSeq(DESIRED_NODE_ORDER_BOTTOM_UP, LAMBDA n : n \in present)

RECURSIVE BuildOrder(_, _)
\* The loop of _build_node_order over the segment names, in row order.
BuildOrder(segs, order) ==
    IF segs = <<>> THEN order
    ELSE LET sg == Head(segs)
         IN  IF Len(sg) # 2 THEN BuildOrder(Tail(segs), order)
             ELSE IF order = <<>> THEN BuildOrder(Tail(segs), <<sg[1], sg[2]>>)
             ELSE IF order[Len(order)] = sg[1]
                  THEN BuildOrder(Tail(segs), Append(order, sg[2]))
             ELSE IF sg[1] \notin Range(order) /\ sg[2] \notin Range(order)
                  THEN BuildOrder(Tail(segs), order \o <<sg[1], sg[2]>>)
             ELSE BuildOrder(Tail(segs), order)

RECURSIVE Dedup(_, _)
\* De-duplicate preserving order.
Dedup(q, seen) ==
    IF q = <<>> THEN <<>>
    ELSE IF Head(q) \in seen THEN Dedup(Tail(q), seen)
    ELSE <<Head(q)>> \o Dedup(Tail(q), seen \cup {Head(q)})

_build_node_order(df) ==
    IF IsEmpty(df) \/ "segment_name" \notin df.columns THEN <<>>
    ELSE Dedup(BuildOrder([i \in DOMAIN df.rows |-> df.rows[i].segment_name], <<>>), {})

UpperCase == <<"A", "B", "C", "D", "E", "F", "G", "H", "I", "J", "K", "L", "M",
               "N", "O", "P", "Q", "R", "S", "T", "U", "V", "W", "X", "Y", "Z">>
LowerCase == <<"a", "b", "c", "d", "e", "f", "g", "h", "i", "j", "k", "l", "m",
               "n", "o", "p", "q", "r", "s", "t", "u", "v", "w", "x", "y", "z">>
Digits == {"0", "1", "2", "3", "4", "5", "6", "7", "8", "9"}

\* str.lower, one character.
LowerChar(c) ==
    IF c \in Range(UpperCase) THEN LowerCase[IndexOf(UpperCase, c)] ELSE c

\* \s of the regular expressions.
IsSpace(c) == c \in {" ", "\t", "\n"}
\* The class [\s\-\(\)_/\\] that normalize_dir replaces by a blank.
IsSeparator(c) == IsSpace(c) \/ c \in {"-", "(", ")", "_", "/", "\\"}
\* \w of the regular expressions.
IsWordChar(c) == c \in Range(LowerCase) \/ c \in Range(UpperCase) \/ c \in Digits \/ c = "_"

RECURSIVE LStrip(_)
LStrip(t) == IF t # <<>> /\ IsSpace(Head(t)) THEN LStrip(Tail(t)) ELSE t

RECURSIVE RStrip(_)
RStrip(t) ==
    IF t # <<>> /\ IsSpace(t[Len(t)]) THEN RStrip(SubSeq(t, 1, Len(t) - 1)) ELSE t

RECURSIVE CollapseSeparators(_)
\* str.replace(r"[\s\-\(\)_/\\]+", " ", regex=True)
CollapseSeparators(t) ==
    IF t = <<>> THEN <<>>
    ELSE IF IsSeparator(Head(t))
         THEN IF Len(t) > 1 /\ IsSeparator(t[2])
              THEN CollapseSeparators(Tail(t))
              ELSE <<" ">> \o CollapseSeparators(Tail(t))
         ELSE <<Head(t)>> \o CollapseSeparators(Tail(t))

RECURSIVE Words(_, _)
\* The maximal runs of word characters of t; cur is the run being read.
Words(t, cur) ==
    IF t = <<>> THEN (IF cur = <<>> THEN {} ELSE {cur})
    ELSE IF IsWordChar(Head(t)) THEN Words(Tail(t), Append(cur, Head(t)))
    ELSE (IF cur = <<>> THEN {} ELSE {cur}) \cup Words(Tail(t), <<>>)

DigitChars == <<"0", "1", "2", "3", "4", "5", "6", "7", "8", "9">>

RECURSIVE NatToStr(_)
\* str(n) for n >= 0.
NatToStr(n) ==
    IF n < 10 THEN <<DigitChars[n + 1]>>
    ELSE NatToStr(n \div 10) \o <<DigitChars[(n % 10) + 1]>>

\* str(n) for an int.
IntToStr(n) == IF n < 0 THEN <<"-">> \o NatToStr(-n) ELSE NatToStr(n)

\* Series.astype(str) on one cell <<type, value>>: a str is kept, an int is
\* written in decimal, a float with a whole value n as "n.0", None as
\* "None", NaN as "nan".
AsTypeStr(cell) ==
    CASE cell[1] = "str" -> cell[2]
      [] cell[1] = "int" -> IntToStr(cell[2])
      [] cell[1] = "float" -> IntToStr(cell[2]) \o <<".", "0">>
      [] cell[1] = "NoneType" -> <<"N", "o", "n", "e">>
      [] cell[1] = "nan" -> <<"n", "a", "n">>

NorthWords == {<<"n", "b">>, <<"n", "o", "r", "t", "h">>,
               <<"n", "o", "r", "t", "h", "b", "o", "u", "n", "d">>}
SouthWords == {<<"s", "b">>, <<"s", "o", "u", "t", "h">>,
               <<"s", "o", "u", "t", "h", "b", "o", "u", "n", "d">>}

\* normalize_dir on one cell: astype(str), lower, strip, the separator
\* replacement, then \b(nb|north|northbound)\b before \b(sb|south|southbound)\b.
normalize_dir_missing_kept(cell) ==
    LET text == AsTypeStr(cell)
        lowered == [i \in DOMAIN text |-> LowerChar(text[i])]
        ser == CollapseSeparators(RStrip(LStrip(lowered)))
        words == Words(ser, <<>>)
    IN  IF cell[1] \in {"NoneType", "nan"} THEN "NaN"
        ELSE IF words \cap NorthWords # {} THEN "nb"
        ELSE IF words \cap SouthWords # {} THEN "sb"
        ELSE "unk"

normalize_dir(cell) ==
    LET text == AsTypeStr(cell)
        lowered == [i \in DOMAIN text |-> LowerChar(text[i])]
        ser == CollapseSeparators(RStrip(LStrip(lowered)))
        words == Words(ser, <<>>)
    IN  IF words \cap NorthWords # {} THEN "nb"
        ELSE IF words \cap SouthWords # {} THEN "sb"
        ELSE "unk"

\* pd.Series(np.where(...), index=ser.index): normalize_dir on a series.
NormalizeDirSeries(s) ==
    [i \in DOMAIN s |-> [idx |-> s[i].idx, value |-> normalize_dir(s[i].value)]]

\* Cells of a direction column: spellings of the two directions, a cell
\* naming both, texts that hold "nb" only inside a word or split by a
\* separator, the empty string, numbers, None and NaN; index labels 0 and 7
\* (a filtered frame keeps its labels, and labels may repeat).
MaxDirRows == 2
DirCells ==
    {<<"str", <<"N", "B">>>>,
     <<"str", <<"N", "o", "r", "t", "h", "-", "b", "o", "u", "n", "d">>>>,
     <<"str", <<" ", "S", "o", "u", "t", "h", " ", "(", "S", "B", ")">>>>,
     <<"str", <<"n", "b", "/", "s", "b">>>>,
     <<"str", <<"i", "n", "b", "o", "u", "n", "d">>>>,
     <<"str", <<"N", "_", "B">>>>,
     <<"str", <<"E", "B">>>>,
     <<"str", <<>>>>,
     <<"int", 1>>, <<"int", -15>>, <<"float", 2>>,
     <<"NoneType", 0>>, <<"nan", 0>>}
DirLabels == {0, 7}
DirSeries == SeqsUpTo([idx : DirLabels, value : DirCells], MaxDirRows)

DirInit ==
    /\ dir_series \in DirSeries
    /\ dir_result = NotReturned
    /\ OthersIdle("dir")

\* One call normalize_dir(s).
NormalizeDir ==
    /\ dir_result = NotReturned
    /\ dir_result' = NormalizeDirSeries(dir_series)
    /\ UNCHANGED <<dir_series, notDir>>

DirNext == NormalizeDir

SpecDir == DirInit /\ [][DirNext]_vars

(***************************************************************************)
(* app.py, Tab 1: O-D path subset and per-hour O-D series                  *)
(*                                                                         *)
(* Rows of corridor_df: [idx, segment_name, direction, local_datetime,     *)
(* average_traveltime, average_delay]; the direction column may be absent. *)
(* Values of od_series are sums of means times ODScale.                    *)
(***************************************************************************)
MaxODRows == 2
ODScale == LcmUpTo(MaxODRows)

\* node_list of the sidebar, canonical of the main area: the canonical order
\* restricted to the data, or the discovered order when that has < 2 nodes.
NodeList(df) ==
    LET nodes_in_data == _canonical_order_in_data(df)
    IN  IF Len(nodes_in_data) >= 2 THEN nodes_in_data ELSE _build_node_order(df)

\* process_traffic_data(df, date_range, "Hourly", time_filter, start_hour,
\* end_hour) of sidebar_functions: the rows of df in the selected window.
process_traffic_data(df, hours) ==
    Frame(df.columns, SelectSeq(df.rows, LAMBDA r : r.local_datetime \in hours))

\* desired_dir: "nb" when the origin lies below the destination, "sb" when
\* above, None for the same node or without an O-D selection.
DesiredDir(df, sel) ==
    LET canonical == NodeList(df)
    IN  IF /\ sel.od_mode /\ sel.origin # NoNode /\ sel.destination # NoNode
           /\ sel.origin \in Range(canonical)
           /\ sel.destination \in Range(canonical)
        THEN LET i0 == IndexOf(canonical, sel.origin)
                 i1 == IndexOf(canonical, sel.destination)
             IN  IF i0 < i1 THEN "nb" ELSE IF i0 > i1 THEN "sb" ELSE "None"
        ELSE "None"

\* path_segments: the candidate labels canonical[j] -> canonical[j + 1]
\* between the two nodes that are segment names of the data.
PathSegments(df, sel) ==
    LET canonical == NodeList(df)
    IN  IF /\ sel.od_mode /\ sel.origin # NoNode /\ sel.destination # NoNode
           /\ sel.origin \in Range(canonical)
           /\ sel.destination \in Range(canonical)
        THEN LET i0 == IndexOf(canonical, sel.origin)
                 i1 == IndexOf(canonical, sel.destination)
                 imin == IF i0 < i1 THEN i0 ELSE i1
                 imax == IF i0 < i1 THEN i1 ELSE i0
                 candidate_segments ==
                     [j \in 1 .. (imax - imin) |->
                         <<canonical[imin + j - 1], canonical[imin + j]>>]
                 seg_names_in_data == {df.rows[i].segment_name : i \in DOMAIN df.rows}
             IN  SelectSeq(candidate_segments, LAMBDA sg : sg \in seg_names_in_data)
        ELSE <<>>

\* The rows of a frame whose normalised direction is dd, when the frame has
\* a direction column and dd is not None.
DirectionFilter(df, dd) ==
    IF "direction" \in df.columns /\ dd # "None"
    THEN Frame(df.columns, SelectSeq(df.rows, LAMBDA r : normalize_dir(r.direction) = dd))
    ELSE df

\* working_df: the path's rows of the wanted direction, or all of base_df
\* when O-D mode is off or no path segment is in the data.
WorkingDf(df, sel) ==
    LET path_segments == PathSegments(df, sel)
    IN  IF path_segments # <<>>
        THEN DirectionFilter(
                 Frame(df.columns,
                       SelectSeq(df.rows, LAMBDA r : r.segment_name \in Range(path_segments))),
                 DesiredDir(df, sel))
        ELSE df

RouteLabel(df, sel) ==
    IF PathSegments(df, sel) # <<>> THEN <<sel.origin, sel.destination>>
    ELSE <<"All Segments">>

FinalGuard_skipped(df, dd) == df

\* "Final guard": od_hourly filtered to desired_dir again.
FinalGuard(df, dd) == DirectionFilter(df, dd)

\* The mean of a column over rows, times ODScale (0 when no value is present,
\* which is what the sum over segments adds for a missing mean).
MeanScaledOD(rws, col) ==
    LET vals == Present(rws, col)
    IN  IF vals = <<>> THEN 0 ELSE (SeqSum(vals) * ODScale) \div Len(vals)

RECURSIVE SetSum(_, _)
\* Sum of f[x] over x in S.
SetSum(S, f) ==
    IF S = {} THEN 0
    ELSE LET x == CHOOSE y \in S : TRUE IN f[x] + SetSum(S \ {x}, f)

ODSeries_no_mean(rws) ==
    {[local_datetime |-> h,
      average_traveltime |->
          ODScale * SeqSum(Present(SelectSeq(rws, LAMBDA r : r.local_datetime = h),
                                   "average_traveltime")),
      average_delay |->
          ODScale * SeqSum(Present(SelectSeq(rws, LAMBDA r : r.local_datetime = h),
                                   "average_delay"))]
     : h \in {rws[i].local_datetime : i \in DOMAIN rws}}

\* od_hourly.groupby(["local_datetime", "segment_name"]).agg(mean), then
\* groupby("local_datetime").agg(sum).
ODSeries(rws) ==
    {LET inHour == SelectSeq(rws, LAMBDA r : r.local_datetime = h)
         segs == {inHour[i].segment_name : i \in DOMAIN inHour}
         ofSeg(sg) == SelectSeq(inHour, LAMBDA r : r.segment_name = sg)
     IN  [local_datetime |-> h,
          average_traveltime |->
              SetSum(segs, [sg \in segs |-> MeanScaledOD(ofSeg(sg), "average_traveltime")]),
          average_delay |->
              SetSum(segs, [sg \in segs |-> MeanScaledOD(ofSeg(sg), "average_delay")])]
     : h \in {rws[i].local_datetime : i \in DOMAIN rws}}

RECURSIVE AggregateRows(_, _, _, _)
\* One row per (bucket, segment, direction) of the rows rest, in the order of
\* first appearance: the bucket start and the means, times ODScale, of the
\* measurements of the rows of all with that key.
AggregateRows(rest, all, g, seen) ==
    IF rest = <<>> THEN <<>>
    ELSE LET key(r) == <<BucketOf(r.local_datetime, g), r.segment_name,
                         IF "direction" \in DOMAIN r THEN r.direction ELSE <<>>>>
             r0 == Head(rest)
             same == SelectSeq(all, LAMBDA r : key(r) = key(r0))
         IN  IF key(r0) \in seen THEN AggregateRows(Tail(rest), all, g, seen)
             ELSE <<[r0 EXCEPT !.local_datetime = BucketOf(r0.local_datetime, g),
                                !.average_traveltime = MeanScaledOD(same, "average_traveltime"),
                                !.average_delay = MeanScaledOD(same, "average_delay")]>>
                  \o AggregateRows(Tail(rest), all, g, seen \cup {key(r0)})

\* process_traffic_data(df, date_range, granularity, ...) of
\* sidebar_functions: the rows of the window, re-bucketed to the granularity
\* when it is not Hourly.
ProcessAtGranularity(df, hours, g) ==
    LET windowed == process_traffic_data(df, hours)
    IN  IF g = "Hourly" THEN windowed
        ELSE Frame(df.columns, AggregateRows(windowed.rows, windowed.rows, g, {}))

KpiInput_aggregated(hourly, series, filtered_data) ==
    [source |-> "filtered_data", rows |-> Range(filtered_data.rows)]

\* raw_data: the O-D series when the forced-hourly rows are not empty, the
\* rows at the selected granularity otherwise.
KpiInput(hourly, series, filtered_data) ==
    IF ~IsEmpty(hourly) THEN [source |-> "od_series", rows |-> series]
    ELSE [source |-> "filtered_data", rows |-> Range(filtered_data.rows)]

\* Corridor data: two adjacent canonical segments, one segment named against
\* the canonical orientation, one between nodes outside the canonical list;
\* direction cells in several spellings; two hours; measurements
\* (travel time, delay) of 3 min / 1 min and 6 min / 2 min.
SegA == <<"Avenue 52", "Calle Tampico">>
SegB == <<"Calle Tampico", "Village Shopping Ctr">>
SegBReversed == <<"Village Shopping Ctr", "Calle Tampico">>
SegX == <<"Main St", "Oak St">>
DirNB == <<"str", <<"N", "B">>>>
DirNorthbound == <<"str", <<"N", "o", "r", "t", "h", "b", "o", "u", "n", "d">>>>
DirNbPadded == <<"str", <<" ", "n", "b", " ">>>>
DirSB == <<"str", <<"S", "B">>>>
DirSouthBound == <<"str", <<"s", "o", "u", "t", "h", "_", "b", "o", "u", "n", "d">>>>
DirEB == <<"str", <<"E", "B">>>>
HourSeven == At(29, 7, 0)
HourEight == At(29, 8, 0)
SampleHours == {HourSeven, HourEight}

ODRecord(sg, dr, h, tt, dl) ==
    [idx |-> 0, segment_name |-> sg, direction |-> dr, local_datetime |-> h,
     average_traveltime |-> tt, average_delay |-> dl]

SampleRecords ==
    {ODRecord(SegA, DirNB, HourSeven, 3, 1),
     ODRecord(SegA, DirNorthbound, HourSeven, 6, 2),
     ODRecord(SegA, DirSB, HourSeven, 6, 2),
     ODRecord(SegA, DirEB, HourSeven, 3, 1),
     ODRecord(SegB, DirNB, HourSeven, 6, 2),
     ODRecord(SegB, DirNB, HourEight, 3, 1),
     ODRecord(SegBReversed, DirSouthBound, HourSeven, 6, 2),
     ODRecord(SegX, DirNbPadded, HourSeven, 3, 1)}

\* The same record without the direction column.
DropDirection(r) ==
    [idx |-> r.idx, segment_name |-> r.segment_name, local_datetime |-> r.local_datetime,
     average_traveltime |-> r.average_traveltime, average_delay |-> r.average_delay]

SampleRecordsNoDirection ==
    {DropDirection(r) : r \in {q \in SampleRecords : q.direction \in {DirNB, DirNorthbound, DirNbPadded}}}

CorridorFrames ==
    {Frame({"segment_name", "direction", "local_datetime", "average_traveltime",
            "average_delay"}, WithIndex(c)) : c \in SeqsUpTo(SampleRecords, MaxODRows)}
    \cup
    {Frame({"segment_name", "local_datetime", "average_traveltime", "average_delay"},
           WithIndex(c)) : c \in SeqsUpTo(SampleRecordsNoDirection, MaxODRows)}

\* The selections the sidebar offers for the loaded data: O-D mode off, or on
\* with an origin and a destination from node_list (none when it has fewer
\* than two nodes); a granularity; the window keeps both hours or, by the
\* "Time Period Focus" that only Hourly offers, the first.
Selections(df) ==
    LET node_list == NodeList(df)
        choices == {<<"Hourly", SampleHours>>, <<"Hourly", {HourSeven}>>,
                    <<"Daily", SampleHours>>}
    IN  {[od_mode |-> FALSE, origin |-> NoNode, destination |-> NoNode, hours |-> c[2],
          granularity |-> c[1]] : c \in choices}
        \cup
        (IF Len(node_list) >= 2
         THEN {[od_mode |-> TRUE, origin |-> o, destination |-> dn, hours |-> c[2],
                granularity |-> c[1]] :
                  o \in Range(node_list), dn \in Range(node_list), c \in choices}
         ELSE {[od_mode |-> TRUE, origin |-> NoNode, destination |-> NoNode, hours |-> c[2],
                granularity |-> c[1]] : c \in choices})

ODInit ==
    /\ corridor_df \in CorridorFrames
    /\ selection = NoSelection
    /\ desired_dir = "None"
    /\ route_label = <<>>
    /\ od_hourly = <<>>
    /\ od_series = {}
    /\ kpi_input = NoKpiInput
    /\ tab1 = "none"
    /\ OthersIdle("od")

\* get_corridor_df() came back empty: st.error, nothing else runs.
LoadFailed ==
    /\ IsEmpty(corridor_df)
    /\ tab1' = "load_error"
    /\ UNCHANGED <<corridor_df, selection, desired_dir, route_label, od_hourly,
                   od_series, kpi_input, notOD>>

\* One run of the Tab 1 script with the widgets at sel.
RerunTab1(sel) ==
    /\ ~IsEmpty(corridor_df)
    /\ selection' = sel
    /\ LET dd == DesiredDir(corridor_df, sel)
           working_df == WorkingDf(corridor_df, sel)
           filtered_data == ProcessAtGranularity(working_df, sel.hours, sel.granularity)
           hourly == process_traffic_data(working_df, sel.hours)
           guarded == FinalGuard(hourly, dd)
           series == IF IsEmpty(hourly) THEN {} ELSE ODSeries(guarded.rows)
           raw_data == KpiInput(hourly, series, filtered_data)
       IN  /\ desired_dir' = dd
           /\ route_label' = RouteLabel(corridor_df, sel)
           /\ IF IsEmpty(filtered_data)
              THEN /\ tab1' = "no_data"
                   /\ od_hourly' = <<>>
                   /\ od_series' = {}
                   /\ kpi_input' = NoKpiInput
              ELSE /\ od_hourly' = IF IsEmpty(hourly) THEN <<>> ELSE guarded.rows
                   /\ od_series' = series
                   /\ kpi_input' = raw_data
                   /\ tab1' = IF raw_data.rows = {} THEN "no_window_data" ELSE "kpis"
    /\ UNCHANGED <<corridor_df, notOD>>

ODNext == LoadFailed \/ \E sel \in Selections(corridor_df) : RerunTab1(sel)

SpecOD == ODInit /\ [][ODNext]_vars

(***************************************************************************)
(* cycle_length_recommendations.py: render_cycle_length_section, rerun     *)
(* after rerun with the two st.cache_data stores                           *)
(*                                                                         *)
(* A store is a function from keys to stored values.  st.cache_data keys a *)
(* call on the values of all its arguments, stores a serialised copy of    *)
(* the result and hands out a fresh copy on every hit, so what the caller  *)
(* does to a returned frame never reaches the store.                       *)
(***************************************************************************)
CacheKey_no_period(df, time_col, p) == <<df, time_col>>

\* The key of one call filter_by_period(df, time_col, period).
CacheKey(df, time_col, p) == <<df, time_col, p>>

\* The store after a call with key k whose computed result would be v.
CachePut(store, k, v) ==
    IF k \in DOMAIN store THEN store
    ELSE [x \in DOMAIN store \cup {k} |-> IF x = k THEN v ELSE store[x]]

\* The answer of a call with key k whose computed result would be v.
CacheGet(store, k, v) == IF k \in DOMAIN store THEN store[k] ELSE v

period_map ==
    [x \in {"AM (05:00-10:00)", "MD (11:00-15:00)", "PM (16:00-20:00)", "All Day"} |->
        CASE x = "AM (05:00-10:00)" -> "AM"
          [] x = "MD (11:00-15:00)" -> "MD"
          [] x = "PM (16:00-20:00)" -> "PM"
          [] OTHER -> "ALL"]

\* raw = raw.copy(); raw["local_datetime"] = pd.to_datetime(..., "coerce")
CoerceRaw(df) ==
    Frame(df.columns,
          [i \in DOMAIN df.rows |->
              [df.rows[i] EXCEPT !.local_datetime = ToDatetimeCoerce(@)]])

\* period_data.groupby("hour")["total_volume"].mean(), then
\* round(0).astype(int): the hours present (NaT rows have no hour) with the
\* rounded mean volume of each.
HourlyVolumes(period_data) ==
    LET timed == SelectSeq(period_data.rows, LAMBDA r : r.local_datetime # NaT)
        hours == {HourOf(timed[i].local_datetime) : i \in DOMAIN timed}
        ofHour(h) == SelectSeq(timed, LAMBDA r : HourOf(r.local_datetime) = h)
    IN  [h \in hours |->
            RoundHalfEven(SeqSum([i \in DOMAIN ofHour(h) |-> ofHour(h)[i].total_volume]),
                          Len(ofHour(h)))]

\* The hourly table given the label of each volume.
HourlyTable(volumes, labels, current) ==
    {[hour |-> h, Volume |-> volumes[h], recommendation |-> labels[volumes[h]],
      status |-> _get_status(labels[volumes[h]], current)] : h \in DOMAIN volumes}

\* Rows of the section's frame: an AM hour, a midday hour and an unparseable
\* timestamp; volumes whose mean 449.5 rounds to 450.
MaxRerunRows == 2
RerunTimes == {At(29, 6, 0), At(29, 12, 0), BadTime}
RerunVolumes == {299, 600}
RerunFrames ==
    {Frame({"local_datetime", "total_volume"}, WithIndex(c)) :
        c \in SeqsUpTo([idx : {0}, local_datetime : RerunTimes,
                        total_volume : RerunVolumes], MaxRerunRows)}
WidgetChoices ==
    [time_period : DOMAIN period_map, current_cycle : Range(CYCLE_ORDER)]

RerunInit ==
    /\ section_raw \in RerunFrames
    /\ widgets = NoWidgets
    /\ filter_cache = <<>>
    /\ cycle_cache = <<>>
    /\ cache_hits = NoHits
    /\ section = "none"
    /\ hourly_table = {}
    /\ OthersIdle("rerun")

\* A rerun with an empty frame: st.info and return.
RenderNoRaw ==
    /\ IsEmpty(section_raw)
    /\ section' = "no_raw"
    /\ UNCHANGED <<section_raw, widgets, filter_cache, cycle_cache, cache_hits,
                   hourly_table, notRerun>>

\* One rerun of render_cycle_length_section with the widgets at w.
RenderCycleSection(w) ==
    /\ ~IsEmpty(section_raw)
    /\ widgets' = w
    /\ LET raw_copy == CoerceRaw(section_raw)
           selected_period == period_map[w.time_period]
           key == CacheKey(raw_copy, "local_datetime", selected_period)
           computed == filter_by_period(raw_copy, "local_datetime", selected_period)
           period_data == IF selected_period = "ALL" THEN raw_copy
                          ELSE CacheGet(filter_cache, key, computed)
           volumes == HourlyVolumes(period_data)
           asked == {volumes[h] : h \in DOMAIN volumes}
           labels == [v \in asked |->
                         CacheGet(cycle_cache, v, get_hourly_cycle_length(v))]
       IN  /\ filter_cache' = IF selected_period = "ALL" THEN filter_cache
                              ELSE CachePut(filter_cache, key, computed)
           /\ IF IsEmpty(period_data)
              THEN /\ section' = "no_data"
                   /\ hourly_table' = {}
                   /\ cycle_cache' = cycle_cache
                   /\ cache_hits' = [filter |-> selected_period # "ALL" /\ key \in DOMAIN filter_cache,
                                     cycle |-> FALSE]
              ELSE /\ section' = "table"
                   /\ hourly_table' = HourlyTable(volumes, labels, w.current_cycle)
                   /\ cycle_cache' =
                          [v \in DOMAIN cycle_cache \cup asked |->
                              CacheGet(cycle_cache, v, get_hourly_cycle_length(v))]
                   /\ cache_hits' = [filter |-> selected_period # "ALL" /\ key \in DOMAIN filter_cache,
                                     cycle |-> asked \cap DOMAIN cycle_cache # {}]
    /\ UNCHANGED <<section_raw, notRerun>>

RerunNext == RenderNoRaw \/ \E w \in WidgetChoices : RenderCycleSection(w)

SpecRerun == RerunInit /\ [][RerunNext]_vars

(***************************************************************************)
(* app.py: _cap_series_for_x, improved_volume_charts_for_tab2              *)
(***************************************************************************)
\* Default of the parameter top_k; the call of Tab 2 does not pass it.
top_k == 8

RECURSIVE DropDuplicates(_, _)
\* x_df[["local_datetime", "bucket_hours"]].drop_duplicates(): the first row
\* of every (local_datetime, bucket_hours) pair, index labels kept.
DropDuplicates(rws, seen) ==
    IF rws = <<>> THEN <<>>
    ELSE LET r == Head(rws)
             pair == <<r.local_datetime, r.bucket_hours>>
         IN  IF pair \in seen THEN DropDuplicates(Tail(rws), seen)
             ELSE <<[idx |-> r.idx, local_datetime |-> r.local_datetime,
                     bucket_hours |-> r.bucket_hours]>>
                  \o DropDuplicates(Tail(rws), seen \cup {pair})

RECURSIVE SortByTime(_)
\* sort_values("local_datetime"), rows with equal times in their given order.
SortByTime(rws) ==
    IF rws = <<>> THEN <<>>
    ELSE LET i == CHOOSE k \in DOMAIN rws :
                      /\ \A j \in DOMAIN rws : rws[k].local_datetime <= rws[j].local_datetime
                      /\ \A j \in 1 .. (k - 1) : rws[j].local_datetime # rws[k].local_datetime
         IN  <<rws[i]>> \o SortByTime(SubSeq(rws, 1, i - 1) \o SubSeq(rws, i + 1, Len(rws)))

_cap_series_for_x(x_df, cap_vph, high_vph) ==
    LET sorted == SortByTime(DropDuplicates(x_df.rows, {}))
    IN  Frame({"local_datetime", "bucket_hours", "capacity", "high"},
              [i \in DOMAIN sorted |->
                  [idx |-> sorted[i].idx,
                   local_datetime |-> sorted[i].local_datetime,
                   bucket_hours |-> sorted[i].bucket_hours,
                   capacity |-> sorted[i].bucket_hours * cap_vph,
                   high |-> sorted[i].bucket_hours * high_vph]])

\* plot_df: the rows of agg of the top_k intersections by mean demand, sorted
\* by time.  Every intersection is kept when there are at most top_k of them,
\* as in all frames of the model.
PlotDf(a) ==
    LET names == {a.rows[i].intersection_name : i \in DOMAIN a.rows}
        keep == IF Cardinality(names) <= top_k THEN names
                ELSE CHOOSE k \in SUBSET names : Cardinality(k) = top_k
    IN  Frame(a.columns,
              SortByTime(SelectSeq(a.rows, LAMBDA r : r.intersection_name \in keep)))

\* Inputs of the charts: two records of one hour, a record two days later in
\* the same week and the next month, one in the next week, a missing
\* timestamp; two intersections.
MaxChartRows == 2
ChartTimes == {At(29, 0, 0), At(29, 0, 30), At(31, 5, 0), At(35, 0, 0), NaT}
ChartNames == {"Ave 48", "Ave 50"}
ChartVolumes == {700}
ChartFrames ==
    {Frame({"local_datetime", "intersection_name", "total_volume"}, WithIndex(c)) :
        c \in SeqsUpTo([idx : {0}, local_datetime : ChartTimes,
                        intersection_name : ChartNames,
                        total_volume : ChartVolumes], MaxChartRows)}
\* (cap_vph, high_vph): the constants Tab 2 passes, equal values, and a
\* threshold above the capacity.
CapPairs ==
    {<<THEORETICAL_LINK_CAPACITY_VPH, HIGH_VOLUME_THRESHOLD_VPH>>,
     <<HIGH_VOLUME_THRESHOLD_VPH, HIGH_VOLUME_THRESHOLD_VPH>>,
     <<HIGH_VOLUME_THRESHOLD_VPH, THEORETICAL_LINK_CAPACITY_VPH>>}

ChartInit ==
    /\ chart_df \in ChartFrames
    /\ chart_args = NoChartArgs
    /\ chart_agg = NoFrame
    /\ xs = <<>>
    /\ charts = "none"
    /\ OthersIdle("chart")

\* One call improved_volume_charts_for_tab2(raw_hourly_df, g, cap, high).
BuildCharts(g, cap, high) ==
    /\ chart_args' = [granularity |-> g, cap_vph |-> cap, high_vph |-> high]
    /\ IF IsEmpty(chart_df)
       THEN /\ chart_agg' = NoFrame
            /\ xs' = <<>>
            /\ charts' = "no_figures"
       ELSE LET a == _prep_bucket(chart_df, g)
            IN  /\ chart_agg' = a
                /\ IF IsEmpty(a)
                   THEN xs' = <<>> /\ charts' = "no_figures"
                   ELSE /\ xs' = _cap_series_for_x(PlotDf(a), cap, high).rows
                        /\ charts' = "figures"
    /\ UNCHANGED <<chart_df, notChart>>

ChartNext == \E g \in Granularities, cp \in CapPairs : BuildCharts(g, cp[1], cp[2])

SpecChart == ChartInit /\ [][ChartNext]_vars

(***************************************************************************)
(* app.py, Tab 2: traffic demand performance indicators                    *)
(*                                                                         *)
(* Rows of volume_df: [idx, local_datetime, intersection_name, direction,  *)
(* total_volume].  A date is a day number; date_range_vol is <<first,      *)
(* last>>.  risk_pct is in tenths of a percent.                            *)
(***************************************************************************)
\* Series.dt.date
DateOf(ts) == ts \div MinutesPerDay

\* base_df: volume_df restricted to the selected intersection and direction.
BaseDf(df, sel) ==
    Frame(df.columns,
          SelectSeq(df.rows,
                    LAMBDA r : /\ \/ sel.intersection = "All Intersections"
                                  \/ r.intersection_name = sel.intersection
                               /\ \/ sel.direction_filter = "All Directions"
                                  \/ r.direction = sel.direction_filter))

\* raw: the rows of base_df whose date lies in date_range_vol.
WindowedRaw(base_df, date_range) ==
    Frame(base_df.columns,
          SelectSeq(base_df.rows,
                    LAMBDA r : /\ DateOf(r.local_datetime) >= date_range[1]
                               /\ DateOf(r.local_datetime) <= date_range[2]))

\* _prep_bucket(raw, g).groupby("local_datetime")["total_volume"].sum():
\* the total of every bucket, as a function of the bucket start.
BucketAll(rawdf, g) ==
    LET a == _prep_bucket(rawdf, g).rows
        starts == {a[i].local_datetime : i \in DOMAIN a}
    IN  [b \in starts |->
            SumVolumes(SelectSeq(a, LAMBDA r : r.local_datetime = b))]

\* (raw["total_volume"] > HIGH_VOLUME_THRESHOLD_VPH).sum()
HighHours(rws) ==
    Len(SelectSeq(rws, LAMBDA r : r.total_volume # NaN
                                  /\ r.total_volume > HIGH_VOLUME_THRESHOLD_VPH))

\* raw["total_volume"].count()
CountVolumes(rws) == Len(SelectSeq(rws, LAMBDA r : r.total_volume # NaN))

VolumeKpis_on_buckets(rawdf, g) ==
    LET bucket_all == BucketAll(rawdf, g)
        over == {b \in DOMAIN bucket_all :
                    bucket_all[b] > HIGH_VOLUME_THRESHOLD_VPH * BucketHours(b, g)}
    IN  IF DOMAIN bucket_all = {} THEN NoKpis("error")
        ELSE [status |-> "kpis",
              peak_val |-> SetMax({bucket_all[b] : b \in DOMAIN bucket_all}),
              buckets |-> Cardinality(DOMAIN bucket_all),
              high_hours |-> Cardinality(over),
              total_hours |-> Cardinality(DOMAIN bucket_all),
              risk_pct |-> RoundHalfEven(Cardinality(over) * 1000,
                                         Cardinality(DOMAIN bucket_all)),
              total_vehicles |-> SetSum(DOMAIN bucket_all, bucket_all)]

\* The indicators of the non-empty raw under granularity g: peak_val on the
\* bucket totals (idxmax raises on an empty bucket_all), high_hours,
\* total_hours, risk_pct and total_vehicles on raw.
VolumeKpis(rawdf, g) ==
    LET bucket_all == BucketAll(rawdf, g)
    IN  IF DOMAIN bucket_all = {} THEN NoKpis("error")
        ELSE [status |-> "kpis",
              peak_val |-> SetMax({bucket_all[b] : b \in DOMAIN bucket_all}),
              buckets |-> Cardinality(DOMAIN bucket_all),
              high_hours |-> HighHours(rawdf.rows),
              total_hours |-> CountVolumes(rawdf.rows),
              risk_pct |-> IF CountVolumes(rawdf.rows) > 0
                           THEN RoundHalfEven(HighHours(rawdf.rows) * 1000,
                                              CountVolumes(rawdf.rows))
                           ELSE 0,
              total_vehicles |-> SumVolumes(rawdf.rows)]

\* What one run of Tab 2 shows for the loaded frame and the widgets at sel.
Tab2Run(df, sel) ==
    LET base_df == BaseDf(df, sel)
        in_range == {t \in {base_df.rows[i].local_datetime : i \in DOMAIN base_df.rows} :
                        /\ DateOf(t) >= sel.date_range_vol[1]
                        /\ DateOf(t) <= sel.date_range_vol[2]}
        filtered_volume_data == process_traffic_data(base_df, in_range)
        rawdf == WindowedRaw(base_df, sel.date_range_vol)
    IN  IF IsEmpty(base_df) THEN NoKpis("no_data_for_filters")
        ELSE IF IsEmpty(filtered_volume_data) THEN NoKpis("no_data_in_range")
        ELSE IF IsEmpty(rawdf) \/ CountVolumes(rawdf.rows) = 0 THEN NoKpis("no_raw_volume")
        ELSE VolumeKpis(rawdf, sel.granularity_vol)

\* Volume data: two hours of Jan 30 and one of Feb 1, 2024; volumes below and
\* above the high-volume threshold and a missing one; two intersections, one
\* of them without a name in some rows.
MaxVolRows == 2
VolTimes == {At(29, 7, 0), At(29, 8, 0), At(31, 7, 0)}
VolVolumes == {700, 1300, NaN}
VolNames == {"Ave 48", "Ave 50", NoName}
VolFrames ==
    {Frame({"local_datetime", "intersection_name", "direction", "total_volume"},
           WithIndex(c)) :
        c \in SeqsUpTo([idx : {0}, local_datetime : VolTimes,
                        intersection_name : VolNames, direction : {"NB"},
                        total_volume : VolVolumes], MaxVolRows)}

\* The widgets: an intersection of the data or all, a direction of the data
\* or all, the whole date range or its first day, a granularity.
VolSelections(df) ==
    [intersection : {"All Intersections"}
                    \cup ({df.rows[i].intersection_name : i \in DOMAIN df.rows} \ {NoName}),
     direction_filter : {"All Directions"} \cup {df.rows[i].direction : i \in DOMAIN df.rows},
     date_range_vol : {<<29, 31>>, <<29, 29>>},
     granularity_vol : Granularities]

VolInit ==
    /\ volume_df \in VolFrames
    /\ vol_selection = NoVolSelection
    /\ vol_kpis = NoKpis("none")
    /\ OthersIdle("vol")

\* get_volume_df() came back empty: st.error.
VolumeLoadFailed ==
    /\ IsEmpty(volume_df)
    /\ vol_kpis.status = "none"
    /\ vol_kpis' = NoKpis("load_error")
    /\ UNCHANGED <<volume_df, vol_selection, notVol>>

\* One run of Tab 2 with the widgets at sel.
ShowVolumeKpis(sel) ==
    /\ ~IsEmpty(volume_df)
    /\ vol_kpis.status = "none"
    /\ vol_selection' = sel
    /\ vol_kpis' = Tab2Run(volume_df, sel)
    /\ UNCHANGED <<volume_df, notVol>>

VolNext == VolumeLoadFailed \/ \E sel \in VolSelections(volume_df) : ShowVolumeKpis(sel)

SpecVol == VolInit /\ [][VolNext]_vars

(***************************************************************************)
(* app.py: _canonical_order_in_data on segment names as written            *)
(*                                                                         *)
(* A written segment name is a sequence of pieces: node labels, blanks and *)
(* arrows.                                                                 *)
(***************************************************************************)
Arrow == "→"
\* A missing segment_name (NaN).
MissingName == <<"NaN">>

RECURSIVE SplitArrow(_, _)
\* str.split("→"): the pieces between the arrows; cur is the part being read.
SplitArrow(text, cur) ==
    IF text = <<>> THEN <<cur>>
    ELSE IF Head(text) = Arrow THEN <<cur>> \o SplitArrow(Tail(text), <<>>)
    ELSE SplitArrow(Tail(text), Append(cur, Head(text)))

\* x.strip() of one part; a part of one label is that label, the empty part
\* is the empty string.
StripPart(part) ==
    LET t == RStrip(LStrip(part))
    IN  IF t = <<>> THEN "" ELSE IF Len(t) = 1 THEN t[1] ELSE "<several labels>"

\* The stripped parts of a written name; none for a missing name (dropna).
ParseSegmentName(cell) ==
    IF cell = MissingName THEN <<>>
    ELSE LET parts == SplitArrow(cell, <<>>)
         IN  [i \in DOMAIN parts |-> StripPart(parts[i])]

\* The frame with every segment_name split into its stripped parts.
ParsedFrame(df) ==
    IF "segment_name" \notin df.columns THEN df
    ELSE Frame(df.columns,
               [i \in DOMAIN df.rows |->
                   [df.rows[i] EXCEPT !.segment_name = ParseSegmentName(@)]])

\* Written names: canonical segments with and without blanks around the
\* arrow, one running top-down, one to a node outside the canonical list,
\* one without a left label, a name without arrow, one with two arrows, a
\* missing name.
MaxCanonRows == 2
WrittenNames ==
    {<<"Avenue 52", " ", Arrow, " ", "Calle Tampico">>,
     <<"Calle Tampico", " ", Arrow, " ", "Village Shopping Ctr">>,
     <<"Hwy 111", Arrow, "Avenue 48">>,
     <<"Avenue 50", " ", Arrow, " ", "Main St">>,
     <<" ", Arrow, " ", "Point Happy Simon">>,
     <<"Avenue 47">>,
     <<"Avenue 47", Arrow, "Sagebrush Ave", Arrow, "Eisenhower Dr">>,
     MissingName}
SegmentFrames ==
    {Frame({"segment_name"}, WithIndex(c)) :
        c \in SeqsUpTo([idx : {0}, segment_name : WrittenNames], MaxCanonRows)}
    \cup
    {Frame({"local_datetime"}, WithIndex(c)) :
        c \in SeqsUpTo([idx : {0}, local_datetime : {HourSeven}], MaxCanonRows)}

CanonInit ==
    /\ seg_df \in SegmentFrames
    /\ canon_order = NoOrder
    /\ OthersIdle("canon")

\* One call _canonical_order_in_data(df).
CanonicalOrder ==
    /\ canon_order = NoOrder
    /\ canon_order' = _canonical_order_in_data(ParsedFrame(seg_df))
    /\ UNCHANGED <<seg_df, notCanon>>

CanonNext == CanonicalOrder

SpecCanon == CanonInit /\ [][CanonNext]_vars

(***************************************************************************)
(* Claims on the cycle-length lookup                                       *)
(***************************************************************************)
\* Position of a label in CYCLE_ORDER.
OrderIndex(label) == CHOOSE i \in DOMAIN CYCLE_ORDER : CYCLE_ORDER[i] = label

\* C1: get_hourly_cycle_length maps every volume to exactly one label by the
\* fixed thresholds: 140 sec iff volume >= 2400, 130 sec iff 1500 <= volume <
\* 2400, 120 sec iff 600 <= volume < 1500, 110 sec iff 300 <= volume < 600,
\* Free mode iff volume < 300 (volume <= 0 included) or volume is missing.
C1_Thresholds ==
    recommended # None =>
        /\ recommended \in Range(CYCLE_ORDER)
        /\ (recommended = Sec140) <=> (volume # NaN /\ volume >= 2400)
        /\ (recommended = Sec130) <=> (volume # NaN /\ 1500 <= volume /\ volume < 2400)
        /\ (recommended = Sec120) <=> (volume # NaN /\ 600 <= volume /\ volume < 1500)
        /\ (recommended = Sec110) <=> (volume # NaN /\ 300 <= volume /\ volume < 600)
        /\ (recommended = FreeMode) <=> (volume = NaN \/ volume < 300)

\* A volume exactly on the top threshold has been mapped.
C1_Witness == volume = 2400 /\ recommended = Sec140

\* C9: _get_status is total over the five labels: OPTIMAL iff recommended
\* equals current, INCREASE iff recommended is strictly later than current in
\* Free mode < 110 sec < 120 sec < 130 sec < 140 sec, REDUCE iff strictly
\* earlier.
C9_Status ==
    status # NoStatus =>
        /\ status \in {"OPTIMAL", "INCREASE", "REDUCE"}
        /\ (status = "OPTIMAL") <=> (recommended = current_cycle)
        /\ (status = "INCREASE") <=> (OrderIndex(recommended) > OrderIndex(current_cycle))
        /\ (status = "REDUCE") <=> (OrderIndex(recommended) < OrderIndex(current_cycle))

\* Free mode was recommended against a timed current cycle.
C9_Witness ==
    /\ status = "REDUCE"
    /\ recommended = FreeMode
    /\ current_cycle = Sec110

(***************************************************************************)
(* Claims on filter_by_period                                              *)
(***************************************************************************)
IdxSet(df) == {df.rows[i].idx : i \in DOMAIN df.rows}

\* The hours of the day each named window keeps.
WindowHours(p) ==
    CASE p = "AM" -> 5 .. 10
      [] p = "MD" -> 11 .. 15
      [] p = "PM" -> 16 .. 20

\* Index labels of the rows of df whose hour-of-day lies in hours.
IdxInHours(df, hours) ==
    {df.rows[i].idx : i \in {j \in DOMAIN df.rows :
        /\ df.rows[j].local_datetime \notin {NaT, BadTime}
        /\ (df.rows[j].local_datetime \div 60) % 24 \in hours}}

IsSubSeq(small, big) ==
    \E keep \in SUBSET DOMAIN big :
        small = SelectSeq(big, LAMBDA r : \E i \in keep : big[i] = r)

\* C8: filter_by_period keeps exactly the rows whose hour-of-day is in 5..10
\* for AM, 11..15 for MD and 16..20 for PM, and keeps all rows for any other
\* period value; the three windows are pairwise disjoint; when the time
\* column is absent the input is returned unchanged.
C8_FilterByPeriod ==
    filtered # NoFrame =>
        IF "local_datetime" \notin fdf.columns
        THEN filtered = fdf
        ELSE /\ filtered.columns = fdf.columns
             /\ period \in {"AM", "MD", "PM"} =>
                    IdxSet(filtered) = IdxInHours(fdf, WindowHours(period))
             /\ period \notin {"AM", "MD", "PM"} => IdxSet(filtered) = IdxSet(fdf)
             /\ Len(filtered.rows) = Cardinality(IdxSet(filtered))
             /\ \A i \in DOMAIN filtered.rows :
                    \E j \in DOMAIN fdf.rows :
                        /\ fdf.rows[j].idx = filtered.rows[i].idx
                        /\ fdf.rows[j].total_volume = filtered.rows[i].total_volume
                        /\ filtered.rows[i].local_datetime
                               \in {fdf.rows[j].local_datetime, NaT}
             /\ \A i, j \in DOMAIN filtered.rows :
                    i < j => filtered.rows[i].idx < filtered.rows[j].idx
             /\ \A p, q \in {"AM", "MD", "PM"} :
                    p # q =>
                        IdxSet(filter_by_period(fdf, "local_datetime", p))
                            \cap IdxSet(filter_by_period(fdf, "local_datetime", q)) = {}

\* An AM filter kept the 10:00 row and dropped the 11:00 row.
C8_Witness ==
    /\ filtered # NoFrame
    /\ period = "AM"
    /\ Len(fdf.rows) = 2
    /\ "local_datetime" \in fdf.columns
    /\ fdf.rows[1].local_datetime = 10 * 60
    /\ fdf.rows[2].local_datetime = 11 * 60
    /\ IdxSet(filtered) = {0}

(***************************************************************************)
(* Claims on _prep_bucket                                                  *)
(***************************************************************************)
\* First minutes of the months of 2024 and of January 2025.
MonthStarts ==
    {d * 1440 : d \in {0, 31, 60, 91, 121, 152, 182, 213, 244, 274, 305, 335, 366}}

\* b is the start of a bucket of granularity g.
IsBucketStart(b, g) ==
    CASE g = "Hourly" -> b % 60 = 0
      [] g = "Daily" -> b % 1440 = 0
      [] g = "Weekly" -> b % (7 * 1440) = 0
      [] g = "Monthly" -> b \in MonthStarts

\* The first minute after the bucket of granularity g that starts at b.
BucketEnd(b, g) ==
    CASE g = "Hourly" -> b + 60
      [] g = "Daily" -> b + 1440
      [] g = "Weekly" -> b + 7 * 1440
      [] g = "Monthly" -> CHOOSE e \in MonthStarts :
                              e > b /\ \A o \in MonthStarts : o > b => e <= o

\* Input row r is a record of intersection n whose timestamp falls in the
\* bucket of granularity g that starts at b.
FallsIn(r, b, n, g) ==
    /\ r.intersection_name = n
    /\ r.local_datetime # NaT
    /\ b <= r.local_datetime
    /\ r.local_datetime < BucketEnd(b, g)

\* The operation has run on the non-empty input.
BucketDone == agg # NoFrame /\ Len(bdf.rows) > 0

\* C2: for every granularity and every non-empty input, _prep_bucket returns
\* exactly one row per (bucket start, intersection_name) pair occurring in the
\* input, and that row's total_volume is the sum of total_volume over the
\* input records of that intersection whose timestamp falls in that bucket
\* (a record with no timestamp or no intersection name forms no pair; a
\* missing volume adds nothing).
C2_OneRowPerPair ==
    BucketDone =>
        /\ \A i \in DOMAIN agg.rows :
               LET row == agg.rows[i]
               IN  /\ IsBucketStart(row.local_datetime, granularity)
                   /\ row.intersection_name # NoName
                   /\ \E j \in DOMAIN bdf.rows :
                          FallsIn(bdf.rows[j], row.local_datetime,
                                  row.intersection_name, granularity)
                   /\ row.total_volume =
                          SumVolumes(SelectSeq(bdf.rows, LAMBDA r :
                              FallsIn(r, row.local_datetime,
                                      row.intersection_name, granularity)))
        /\ \A j \in DOMAIN bdf.rows :
               (bdf.rows[j].local_datetime # NaT /\ bdf.rows[j].intersection_name # NoName)
                   => Cardinality({i \in DOMAIN agg.rows :
                          FallsIn(bdf.rows[j], agg.rows[i].local_datetime,
                                  agg.rows[i].intersection_name, granularity)}) = 1

\* Two records of one intersection, on Jan 30 and Feb 1, were summed into the
\* week that starts on Monday Jan 29.
C2_Witness ==
    /\ BucketDone
    /\ granularity = "Weekly"
    /\ Len(bdf.rows) = 2
    /\ bdf.rows[1].local_datetime = 29 * 1440
    /\ bdf.rows[2].local_datetime = 31 * 1440
    /\ bdf.rows[1].intersection_name = "Ave 48"
    /\ bdf.rows[2].intersection_name = "Ave 48"
    /\ bdf.rows[1].total_volume = 1
    /\ bdf.rows[2].total_volume = 2
    /\ Len(agg.rows) = 1
    /\ agg.rows[1].local_datetime = 28 * 1440
    /\ agg.rows[1].total_volume = 3

\* C10: _prep_bucket returns a frame with the columns local_datetime,
\* intersection_name, total_volume and bucket_hours for every input, an empty
\* input frame included.
C10_ColumnsAlways ==
    agg # NoFrame =>
        {"local_datetime", "intersection_name", "total_volume", "bucket_hours"}
            \subseteq agg.columns

(***************************************************************************)
(* Claims on the bottleneck score                                          *)
(***************************************************************************)
\* C3: every Bottleneck_Score in the Tab 1 bottleneck table lies in the range
\* 0 to 100 (0 to 1000 tenths), for every set of segment-direction groups,
\* groups whose delay or travel-time aggregate is missing included.
C3_ScoreInRange ==
    bn_status = "table" =>
        \A r \in bottlenecks :
            /\ r.Bottleneck_Score # NaN
            /\ 0 <= r.Bottleneck_Score
            /\ r.Bottleneck_Score <= 1000

\* The metrics of the composite.
ScoreMetrics == {"average_delay_max", "average_delay_mean", "average_traveltime_max"}

\* All groups of the shown table have the same value of the metric.
FlatMetric(col) == Cardinality({r[col] : r \in bottlenecks}) = 1

\* What the metric adds to the score of group r: nothing when it is flat, its
\* min-max position otherwise.
Contribution(col, r) ==
    IF FlatMetric(col) THEN <<0, 1>> ELSE _norm(bottlenecks, col, r[col])

\* C16: when the bottleneck table has a single segment-direction group, or
\* all groups have the same value of a metric, min-max normalisation adds 0
\* for that metric; a lone group has Bottleneck_Score 0 and the rating
\* Excellent whatever its delay and travel time.
C16_FlatMetricAddsNothing ==
    bn_status = "table" =>
        /\ \A r \in bottlenecks :
               r.Bottleneck_Score =
                   BottleneckScore(Contribution("average_delay_max", r),
                                   Contribution("average_delay_mean", r),
                                   Contribution("average_traveltime_max", r))
        /\ (\A col \in ScoreMetrics : FlatMetric(col)) =>
               \A r \in bottlenecks : r.Bottleneck_Score = 0 /\ r.Rating = "Excellent"
        /\ Cardinality(bottlenecks) = 1 =>
               \A r \in bottlenecks : r.Bottleneck_Score = 0 /\ r.Rating = "Excellent"

\* A lone group with a peak delay of 1 minute and a peak travel time of 2
\* minutes, scored 0 and rated Excellent.
C16_Witness ==
    /\ bn_status = "table"
    /\ Cardinality(bottlenecks) = 1
    /\ \E r \in bottlenecks :
           /\ r.average_delay_max = 1
           /\ r.average_traveltime_max = 2
           /\ r.n >= 2
           /\ r.Bottleneck_Score = 0
           /\ r.Rating = "Excellent"

\* Two groups with the same peak delay and different mean delays: the peak
\* delay adds nothing, the mean delay does.
C16_FlatPeakDelayReached ==
    /\ bn_status = "table"
    /\ Cardinality(bottlenecks) = 2
    /\ FlatMetric("average_delay_max")
    /\ ~FlatMetric("average_delay_mean")
    /\ \E r \in bottlenecks : r.Bottleneck_Score # NaN /\ r.Bottleneck_Score >= 350

(***************************************************************************)
(* Claims on the capacity risk score                                       *)
(***************************************************************************)
\* The groups of the shown table that hold at least one volume.
RiskGroups == IF risk_status = "table"
              THEN {r \in risk_table : r.total_volume_count > 0} ELSE {}

\* C4 as stated: every capacity Risk Score lies in the range 0 to 100 (0 to
\* 1000 tenths) for every intersection-direction group of non-negative hourly
\* volumes.
C4_RiskInRange ==
    \A r \in RiskGroups : 0 <= r.Risk_Score /\ r.Risk_Score <= 1000

\* C4 as amended: the Risk Score is at least 0 and at most 0.8 * peak
\* capacity utilization % + 2 * peak-to-average ratio (to the rounding of
\* one decimal); it lies in 0 to 100 whenever the peak utilization is at most
\* 100 % and the ratio at most 10.
C4_RiskBound ==
    \A r \in RiskGroups :
        /\ r.Risk_Score # NaN
        /\ 0 <= r.Risk_Score
        /\ 10 * r.Risk_Score <= 8 * r.Peak_Capacity_Util + 20 * r.Peak_Avg_Ratio + 5
        /\ (r.Peak_Capacity_Util <= 1000 /\ r.Peak_Avg_Ratio <= 100)
               => r.Risk_Score <= 1000

\* A group with one hour at capacity and one empty hour: peak 100 %, average
\* 50 %, ratio 2.0, score 69.0.
C4_Witness ==
    \E r \in RiskGroups :
        /\ r.total_volume_max = 1800
        /\ r.total_volume_count = 2
        /\ r.Peak_Capacity_Util = 1000
        /\ r.Avg_Capacity_Util = 500
        /\ r.Peak_Avg_Ratio = 20
        /\ r.Risk_Score = 690

(***************************************************************************)
(* Claims on the O-D series of Tab 1                                       *)
(***************************************************************************)
\* An origin and a destination are selected in O-D mode and the KPIs are shown.
ODSelected ==
    /\ tab1 = "kpis"
    /\ selection.od_mode
    /\ selection.origin # NoNode
    /\ selection.destination # NoNode

\* Position of a selected node in the order the selectboxes list.
NodePos(n) == IndexOf(NodeList(corridor_df), n)

\* The segments of the path between the selected nodes, in the orientation
\* from the lower to the higher position.
SelectedPath ==
    LET nl == NodeList(corridor_df)
        lo == IF NodePos(selection.origin) < NodePos(selection.destination)
              THEN NodePos(selection.origin) ELSE NodePos(selection.destination)
        hi == IF NodePos(selection.origin) < NodePos(selection.destination)
              THEN NodePos(selection.destination) ELSE NodePos(selection.origin)
    IN  {<<nl[j], nl[j + 1]>> : j \in lo .. (hi - 1)}

\* The direction of travel from origin to destination, "None" for one node.
TravelDir ==
    IF NodePos(selection.origin) < NodePos(selection.destination) THEN "nb"
    ELSE IF NodePos(selection.origin) > NodePos(selection.destination) THEN "sb"
    ELSE "None"

\* The loaded records of segment sg in hour h inside the selected window, of
\* the travel direction when the data tells directions apart.
TravelRecords(sg, h) ==
    SelectSeq(corridor_df.rows,
              LAMBDA r : /\ r.segment_name = sg
                         /\ r.local_datetime = h
                         /\ h \in selection.hours
                         /\ \/ "direction" \notin corridor_df.columns
                            \/ TravelDir = "None"
                            \/ normalize_dir(r.direction) = TravelDir)

\* Sum over the segments of segs with records in hour h of the segment's
\* mean of col, times ODScale.
SumOfSegmentMeans(segs, h, col) ==
    LET live == {sg \in segs : TravelRecords(sg, h) # <<>>}
    IN  SetSum(live,
               [sg \in live |->
                   (ODScale * SeqSum([i \in DOMAIN TravelRecords(sg, h) |->
                                         TravelRecords(sg, h)[i][col]]))
                   \div Len(TravelRecords(sg, h))])

\* C6 (as stated): in O-D mode every hour of the O-D series carries the sum,
\* over the segments of the selected origin-destination path, of the
\* segment's mean travel time and mean delay in that hour.
C6_PathSum ==
    ODSelected =>
        \A rec \in od_series :
            /\ rec.average_traveltime =
                   SumOfSegmentMeans(SelectedPath, rec.local_datetime, "average_traveltime")
            /\ rec.average_delay =
                   SumOfSegmentMeans(SelectedPath, rec.local_datetime, "average_delay")

\* The segments the series sums over: the selected path when one of its
\* segments is a segment name of the data, every segment of the data otherwise.
SummedSegments ==
    LET inData == {corridor_df.rows[i].segment_name : i \in DOMAIN corridor_df.rows}
    IN  IF SelectedPath \cap inData # {} THEN SelectedPath ELSE inData

\* C6 (amended): in O-D mode every hour of the O-D series carries the sum of
\* the per-segment means of that hour over the selected path when the data
\* names a segment of that path, and over all segments of the data when it
\* names none (which includes origin = destination).
C6_PathOrAllSum ==
    ODSelected =>
        \A rec \in od_series :
            /\ rec.average_traveltime =
                   SumOfSegmentMeans(SummedSegments, rec.local_datetime, "average_traveltime")
            /\ rec.average_delay =
                   SumOfSegmentMeans(SummedSegments, rec.local_datetime, "average_delay")

\* Two path segments contribute to one hour: 3 min + 6 min = 9 min.
C6_Witness ==
    /\ ODSelected
    /\ route_label = <<"Avenue 52", "Village Shopping Ctr">>
    /\ Len(od_hourly) = 2
    /\ od_hourly[1].segment_name # od_hourly[2].segment_name
    /\ \E rec \in od_series : rec.average_traveltime = 9 * ODScale /\ rec.average_delay = 3 * ODScale

\* C7 (as stated): with O-D mode on, both nodes selected and a direction
\* column, the records summed into the O-D series all have one normalised
\* direction: nb when the origin precedes the destination, sb when it follows.
C7_OneDirection ==
    (ODSelected /\ "direction" \in corridor_df.columns) =>
        /\ \A i, j \in DOMAIN od_hourly :
               normalize_dir(od_hourly[i].direction) = normalize_dir(od_hourly[j].direction)
        /\ NodePos(selection.origin) < NodePos(selection.destination) =>
               \A i \in DOMAIN od_hourly : normalize_dir(od_hourly[i].direction) = "nb"
        /\ NodePos(selection.origin) > NodePos(selection.destination) =>
               \A i \in DOMAIN od_hourly : normalize_dir(od_hourly[i].direction) = "sb"

\* C7 (amended): the same, for an origin and a destination that differ.
C7_OneDirectionDistinct ==
    (/\ ODSelected
     /\ "direction" \in corridor_df.columns
     /\ selection.origin # selection.destination) =>
        \A i \in DOMAIN od_hourly :
            normalize_dir(od_hourly[i].direction) =
                (IF NodePos(selection.origin) < NodePos(selection.destination)
                 THEN "nb" ELSE "sb")

\* A southbound trip over a segment that also has a northbound record: only
\* the southbound record is summed.
C7_Witness ==
    /\ ODSelected
    /\ "direction" \in corridor_df.columns
    /\ selection.origin = "Calle Tampico"
    /\ selection.destination = "Avenue 52"
    /\ Len(corridor_df.rows) = 2
    /\ \E i \in DOMAIN corridor_df.rows : normalize_dir(corridor_df.rows[i].direction) = "nb"
    /\ Len(od_hourly) = 1
    /\ normalize_dir(od_hourly[1].direction) = "sb"

(***************************************************************************)
(* Claim on reruns                                                         *)
(***************************************************************************)
\* What one run of the section shows for frame df and widgets w when every
\* call of filter_by_period and get_hourly_cycle_length is computed afresh.
FreshRender(df, w) ==
    LET rawc == CoerceRaw(df)
        pd == IF period_map[w.time_period] = "ALL" THEN rawc
              ELSE filter_by_period(rawc, "local_datetime", period_map[w.time_period])
        volumes == HourlyVolumes(pd)
    IN  IF IsEmpty(pd) THEN [section |-> "no_data", hourly |-> {}]
        ELSE [section |-> "table",
              hourly |-> {[hour |-> h, Volume |-> volumes[h],
                           recommendation |-> get_hourly_cycle_length(volumes[h]),
                           status |-> _get_status(get_hourly_cycle_length(volumes[h]),
                                                  w.current_cycle)] : h \in DOMAIN volumes}]

\* C5: for fixed loaded data the output of a rerun is a function of the
\* current widget selections alone, whatever reruns came before and whether
\* or not filter_by_period and get_hourly_cycle_length answered from their
\* st.cache_data stores: it is what a fresh computation gives.
C5_Stateless ==
    section \in {"no_data", "table"} =>
        /\ section = FreshRender(section_raw, widgets).section
        /\ hourly_table = FreshRender(section_raw, widgets).hourly

\* A rerun in which both stores answered and a table was shown.
C5_Witness ==
    /\ section = "table"
    /\ cache_hits.filter
    /\ cache_hits.cycle
    /\ hourly_table # {}
    /\ Cardinality(DOMAIN filter_cache) >= 2

(***************************************************************************)
(* Claim on bucket_hours and the capacity overlay                          *)
(***************************************************************************)
\* Hours between the start b of a bucket of granularity g and its end.
HoursInBucket(b, g) == (BucketEnd(b, g) - b) \div 60

\* C11: bucket_hours is 1 for Hourly, 24 for Daily, 168 for Weekly and
\* 24 * days-in-month for Monthly, whatever the number of records in the
\* bucket; _cap_series_for_x returns one row per distinct bucket, in
\* ascending time order, with capacity = bucket_hours * cap_vph and
\* high = bucket_hours * high_vph, so that high <= capacity in every row when
\* high_vph <= cap_vph.
C11_BucketHoursAndCaps ==
    charts = "figures" =>
        /\ \A i \in DOMAIN chart_agg.rows :
               /\ chart_agg.rows[i].bucket_hours =
                      (CASE chart_args.granularity = "Hourly" -> 1
                         [] chart_args.granularity = "Daily" -> 24
                         [] chart_args.granularity = "Weekly" -> 168
                         [] chart_args.granularity = "Monthly" ->
                                HoursInBucket(chart_agg.rows[i].local_datetime, "Monthly"))
               /\ \E j \in DOMAIN xs : xs[j].local_datetime = chart_agg.rows[i].local_datetime
        /\ \A j \in DOMAIN xs :
               /\ \E i \in DOMAIN chart_agg.rows :
                      /\ chart_agg.rows[i].local_datetime = xs[j].local_datetime
                      /\ chart_agg.rows[i].bucket_hours = xs[j].bucket_hours
               /\ xs[j].capacity = xs[j].bucket_hours * chart_args.cap_vph
               /\ xs[j].high = xs[j].bucket_hours * chart_args.high_vph
               /\ chart_args.high_vph <= chart_args.cap_vph => xs[j].high <= xs[j].capacity
        /\ \A j, k \in DOMAIN xs : j < k => xs[j].local_datetime < xs[k].local_datetime

\* Monthly buckets of January (744 h) and February 2024 (696 h), one record
\* each, with the capacity and threshold of Tab 2.
C11_Witness ==
    /\ charts = "figures"
    /\ chart_args.granularity = "Monthly"
    /\ chart_args.cap_vph = 1800
    /\ Len(xs) = 2
    /\ xs[1].bucket_hours = 744 /\ xs[1].capacity = 744 * 1800 /\ xs[1].high = 744 * 1200
    /\ xs[2].bucket_hours = 696 /\ xs[2].capacity = 696 * 1800

(***************************************************************************)
(* Claim on normalize_dir                                                  *)
(***************************************************************************)
\* C12: for input values of any type (strings, numbers, None, NaN)
\* normalize_dir returns exactly one of 'nb', 'sb', 'unk' per value, never a
\* missing value, under the index of the input.
C12_Total ==
    dir_result # NotReturned =>
        /\ Len(dir_result) = Len(dir_series)
        /\ \A i \in DOMAIN dir_result :
               /\ dir_result[i].idx = dir_series[i].idx
               /\ dir_result[i].value \in {"nb", "sb", "unk"}

\* A series labelled 7, 0 of None and " South (SB)" came back as unk, sb
\* under the same labels.
C12_Witness ==
    /\ Len(dir_series) = 2
    /\ dir_series[1] = [idx |-> 7, value |-> <<"NoneType", 0>>]
    /\ dir_series[2].idx = 0
    /\ dir_series[2].value[1] = "str"
    /\ Len(dir_series[2].value[2]) = 11
    /\ dir_result # NotReturned
    /\ dir_result = <<[idx |-> 7, value |-> "unk"], [idx |-> 0, value |-> "sb"]>>

(***************************************************************************)
(* Claim on the hourly-base indicators of Tab 2                            *)
(***************************************************************************)
\* C13: for fixed data, intersection, direction and date range the 'High
\* Volume Hours' count and percentage and the 'Total Vehicles' figure of
\* Tab 2 are the same under every granularity selection.
C13_GranularityFree ==
    vol_kpis.status = "kpis" =>
        \A g \in Granularities :
            LET other == Tab2Run(volume_df, [vol_selection EXCEPT !.granularity_vol = g])
            IN  /\ other.status = "kpis"
                /\ other.high_hours = vol_kpis.high_hours
                /\ other.risk_pct = vol_kpis.risk_pct
                /\ other.total_vehicles = vol_kpis.total_vehicles

\* Daily totals: the hours of 700 and 1300 vehicles of Jan 30 form one
\* bucket of 2000, yet one hourly record of two (50.0 %) is counted high.
C13_Witness ==
    /\ vol_kpis.status = "kpis"
    /\ vol_selection.granularity_vol = "Daily"
    /\ vol_kpis.buckets = 1
    /\ vol_kpis.peak_val = 2000
    /\ vol_kpis.high_hours = 1
    /\ vol_kpis.risk_pct = 500
    /\ vol_kpis.total_vehicles = 2000

(***************************************************************************)
(* Claim on the rows behind the Tab 1 KPIs                                 *)
(***************************************************************************)
\* C14: whenever the hourly O-D series is not empty the Tab 1 KPIs are
\* computed from the per-hour O-D sums, never from the rows aggregated to the
\* selected granularity; those rows feed the KPIs only when the hourly series
\* is empty.
C14_KpisFromHourlySums ==
    tab1 = "kpis" =>
        /\ od_series # {} => (kpi_input.source = "od_series" /\ kpi_input.rows = od_series)
        /\ kpi_input.source = "filtered_data" => od_series = {}

\* Daily aggregation selected, two hours of one day in the O-D series: the
\* KPIs get the two hourly sums.
C14_Witness ==
    /\ tab1 = "kpis"
    /\ selection.granularity = "Daily"
    /\ Cardinality(od_series) = 2
    /\ kpi_input.source = "od_series"
    /\ kpi_input.rows = od_series

(***************************************************************************)
(* Claim on _canonical_order_in_data                                       *)
(***************************************************************************)
\* The labels of a written name that has exactly one arrow.
EndpointsOf(cell) ==
    IF cell # MissingName /\ Cardinality({i \in DOMAIN cell : cell[i] = Arrow}) = 1
    THEN {cell[i] : i \in DOMAIN cell} \ {Arrow, " "}
    ELSE {}

\* The canonical nodes that are an endpoint of a well-formed name of seg_df.
CanonicalEndpoints ==
    IF "segment_name" \notin seg_df.columns THEN {}
    ELSE UNION {EndpointsOf(seg_df.rows[i].segment_name) : i \in DOMAIN seg_df.rows}
         \cap Range(DESIRED_NODE_ORDER_BOTTOM_UP)

\* C15: _canonical_order_in_data returns a subsequence of
\* DESIRED_NODE_ORDER_BOTTOM_UP (same relative order, no duplicates) that
\* holds exactly the canonical nodes appearing as an endpoint of a
\* well-formed 'A -> B' segment_name of the data.
C15_CanonicalSubsequence ==
    canon_order # NoOrder =>
        /\ Range(canon_order) = CanonicalEndpoints
        /\ \A i, j \in DOMAIN canon_order :
               i < j => IndexOf(DESIRED_NODE_ORDER_BOTTOM_UP, canon_order[i])
                        < IndexOf(DESIRED_NODE_ORDER_BOTTOM_UP, canon_order[j])

\* "Hwy 111->Avenue 48" and a name with two arrows: the two endpoints of the
\* first come back bottom-up, the nodes of the second do not come back.
C15_Witness ==
    /\ Len(seg_df.rows) = 2
    /\ "segment_name" \in seg_df.columns
    /\ seg_df.rows[1].segment_name = <<"Hwy 111", Arrow, "Avenue 48">>
    /\ Len(seg_df.rows[2].segment_name) = 5
    /\ seg_df.rows[2].segment_name[1] = "Avenue 47"
    /\ canon_order = <<"Avenue 48", "Hwy 111">>

====
